---- MODULE Spec2Model ----
(***************************************************************************)
(* A model of pwmgr's encrypted-storage engine: the container codec and    *)
(* the password-based encryption of src/pwmgr/crypto/encryption.py, the    *)
(* entry (de)serialisation of src/pwmgr/core/models.py and the vault file  *)
(* protocol (save / load / initialize / is_valid_master_password) of       *)
(* src/pwmgr/core/storage.py.                                              *)
(*                                                                         *)
(* Text is a sequence of Unicode code points, binary data a sequence of    *)
(* bytes 0..255.  The primitives of the `cryptography` package (PBKDF2,    *)
(* AES in counter mode, the GCM tag) are library code; they are modelled   *)
(* as ideal primitives: a key derivation that is injective in (password,   *)
(* salt), a keystream determined by (key, nonce), and a 16-byte tag        *)
(* determined by (key, nonce, ciphertext) that differs whenever the key    *)
(* differs under the same salt or a single ciphertext bit differs.         *)
(***************************************************************************)
EXTENDS Integers, Sequences, FiniteSets, TLC

VARIABLES vault, tmp, dirMode, pc, sv, ret, committed, tampered, crashed, cx

vars == <<vault, tmp, dirMode, pc, sv, ret, committed, tampered, crashed, cx>>

storeVars == <<vault, tmp, dirMode, pc, sv, ret, committed, tampered, crashed>>

(***************************************************************************)
(* Bounds of the model.                                                    *)
(***************************************************************************)
\* longest entry list a save is given
MaxEntries == 2
\* longest plaintext string given to encrypt_password_data directly
MaxTextLen == 2

(***************************************************************************)
(* Program constants (encryption.py, storage.py).                          *)
(***************************************************************************)
VERSION_CBC == 1
VERSION_GCM == 2
SALT_LENGTH == 16
KEY_LENGTH == 32
IV_LENGTH == 16
GCM_TAG_LENGTH == 16
GCM_NONCE_LENGTH == 12
CURRENT_VERSION == VERSION_GCM
SECURE_FILE_MODE == 384
SECURE_DIR_MODE == 448

(***************************************************************************)
(* Bytes and bit operations.                                               *)
(***************************************************************************)
RECURSIVE BitAnd(_, _)
BitAnd(a, b) ==
    IF a = 0 \/ b = 0 THEN 0
    ELSE (IF a % 2 = 1 /\ b % 2 = 1 THEN 1 ELSE 0) + 2 * BitAnd(a \div 2, b \div 2)

RECURSIVE BitXor(_, _)
BitXor(a, b) ==
    IF a = 0 THEN b
    ELSE IF b = 0 THEN a
    ELSE ((a + b) % 2) + 2 * BitXor(a \div 2, b \div 2)

\* s[lo] + ... + s[hi], by halving
RECURSIVE SumRange(_, _, _)
SumRange(s, lo, hi) ==
    IF lo > hi THEN 0
    ELSE IF lo = hi THEN s[lo]
    ELSE LET mid == (lo + hi) \div 2
         IN  SumRange(s, lo, mid) + SumRange(s, mid + 1, hi)

SeqSum(s) == SumRange(s, 1, Len(s))

Indices(s) == [i \in 1..Len(s) |-> i]

\* Python's s[a:b] on 0-based offsets, clipped to the length of s
Slice(s, a, b) ==
    LET hi == IF b > Len(s) THEN Len(s) ELSE b
    IN  IF a >= hi THEN <<>> ELSE SubSeq(s, a + 1, hi)

SliceFrom(s, a) == Slice(s, a, Len(s))

\* What a call gives: Ok(v) for a returned value v, None for a returned None,
\* Raised for an exception.
Ok(v) == [k |-> "ok", v |-> v]

Raised == [k |-> "raised"]

None == [k |-> "none"]

IsOk(x) == x.k = "ok"

IsRaised(x) == x.k = "raised"

IsNone(x) == x.k = "none"

(***************************************************************************)
(* str.encode('utf-8') and bytes.decode('utf-8').                          *)
(***************************************************************************)
IsSurrogate(cp) == cp >= 55296 /\ cp <= 57343

Utf8EncodeChar(cp) ==
    IF cp < 128 THEN <<cp>>
    ELSE IF cp < 2048 THEN <<192 + (cp \div 64), 128 + (cp % 64)>>
    ELSE IF cp < 65536
         THEN <<224 + (cp \div 4096), 128 + ((cp \div 64) % 64), 128 + (cp % 64)>>
    ELSE <<240 + (cp \div 262144), 128 + ((cp \div 4096) % 64),
           128 + ((cp \div 64) % 64), 128 + (cp % 64)>>

\* the bytes of s[lo..hi], by halving
RECURSIVE Utf8EncodeRange(_, _, _)
Utf8EncodeRange(s, lo, hi) ==
    IF lo > hi THEN <<>>
    ELSE IF lo = hi THEN Utf8EncodeChar(s[lo])
    ELSE LET mid == (lo + hi) \div 2
         IN  Utf8EncodeRange(s, lo, mid) \o Utf8EncodeRange(s, mid + 1, hi)

\* the bytes of a string, or Raised (UnicodeEncodeError) for a lone surrogate
Utf8Encode(s) ==
    IF \E i \in 1..Len(s) : IsSurrogate(s[i]) THEN Raised
    ELSE Ok(Utf8EncodeRange(s, 1, Len(s)))

IsCont(b) == b >= 128 /\ b < 192

\* continuation byte k of the character starting at offset i, less its 10
\* prefix; -1 when there is none
Utf8Cont(b, i, k) == IF i + k <= Len(b) /\ IsCont(b[i + k]) THEN b[i + k] - 128 ELSE -1

Utf8Bad == [ok |-> FALSE, cp |-> 0, n |-> 1]

\* a code point of n bytes is rejected when it is overlong, a surrogate or
\* beyond U+10FFFF
Utf8Checked(cp, n) ==
    IF n = 3 /\ (cp < 2048 \/ IsSurrogate(cp)) THEN Utf8Bad
    ELSE IF n = 4 /\ (cp < 65536 \/ cp > 1114111) THEN Utf8Bad
    ELSE [ok |-> TRUE, cp |-> cp, n |-> n]

\* the character starting at offset i (1-based) of b: [ok, cp, n]
Utf8DecodeAt(b, i) ==
    IF b[i] < 128 THEN [ok |-> TRUE, cp |-> b[i], n |-> 1]
    ELSE IF b[i] >= 194 /\ b[i] < 224
         THEN IF Utf8Cont(b, i, 1) < 0 THEN Utf8Bad
              ELSE [ok |-> TRUE, cp |-> (b[i] - 192) * 64 + Utf8Cont(b, i, 1), n |-> 2]
    ELSE IF b[i] >= 224 /\ b[i] < 240
         THEN IF \E k \in 1..2 : Utf8Cont(b, i, k) < 0 THEN Utf8Bad
              ELSE Utf8Checked((b[i] - 224) * 4096 + Utf8Cont(b, i, 1) * 64
                               + Utf8Cont(b, i, 2), 3)
    ELSE IF b[i] >= 240 /\ b[i] < 245
         THEN IF \E k \in 1..3 : Utf8Cont(b, i, k) < 0 THEN Utf8Bad
              ELSE Utf8Checked((b[i] - 240) * 262144 + Utf8Cont(b, i, 1) * 4096
                               + Utf8Cont(b, i, 2) * 64 + Utf8Cont(b, i, 3), 4)
    ELSE Utf8Bad

\* the character d decoded at offset i is followed by no stray continuation
\* byte
Utf8WellFormed(b, i, d) == d.ok /\ (i + d.n > Len(b) \/ ~IsCont(b[i + d.n]))

\* starts: the offsets of the bytes that are no continuation bytes
Utf8DecodeFrom(b, starts) ==
    IF b # <<>> /\ IsCont(b[1]) THEN Raised
    ELSE IF \E k \in 1..Len(starts) :
                ~Utf8WellFormed(b, starts[k], Utf8DecodeAt(b, starts[k])) THEN Raised
    ELSE Ok([k \in 1..Len(starts) |-> Utf8DecodeAt(b, starts[k]).cp])

\* The string of a byte sequence, or Raised (UnicodeDecodeError).  The bytes
\* are valid exactly when the first is no continuation byte and every other
\* lead byte decodes and is followed by exactly its continuation bytes.
Utf8Decode(b) == Utf8DecodeFrom(b, SelectSeq(Indices(b), LAMBDA i : ~IsCont(b[i])))

(***************************************************************************)
(* base64.b64encode and base64.b64decode (non-strict, as the code calls    *)
(* it: characters outside the alphabet are discarded).                     *)
(***************************************************************************)
B64Char(v) ==
    IF v < 26 THEN 65 + v
    ELSE IF v < 52 THEN 97 + (v - 26)
    ELSE IF v < 62 THEN 48 + (v - 52)
    ELSE IF v = 62 THEN 43 ELSE 47

B64Pad == 61

\* the sextet of a character, or 64 when it is not in the alphabet
B64Value(ch) ==
    IF ch >= 65 /\ ch <= 90 THEN ch - 65
    ELSE IF ch >= 97 /\ ch <= 122 THEN ch - 97 + 26
    ELSE IF ch >= 48 /\ ch <= 57 THEN ch - 48 + 52
    ELSE IF ch = 43 THEN 62
    ELSE IF ch = 47 THEN 63
    ELSE 64

\* character j (1-based) of the encoding: the group of three bytes it
\* belongs to, padded with = where the bytes end
B64Encode(b) ==
    LET n == Len(b)
        at(i) == IF i <= n THEN b[i] ELSE 0
    IN  [j \in 1..(4 * ((n + 2) \div 3)) |->
            LET g == 3 * ((j - 1) \div 4)
                r == (j - 1) % 4
            IN  IF r = 0 THEN B64Char(at(g + 1) \div 4)
                ELSE IF r = 1 THEN B64Char((at(g + 1) % 4) * 16 + (at(g + 2) \div 16))
                ELSE IF r = 2
                     THEN IF g + 2 > n THEN B64Pad
                          ELSE B64Char((at(g + 2) % 16) * 4 + (at(g + 3) \div 64))
                ELSE IF g + 3 > n THEN B64Pad ELSE B64Char(at(g + 3) % 64)]

\* binascii.a2b_base64, not strict.  Characters outside the alphabet are
\* skipped.  A padding character ends the data when three characters of the
\* current group of four were read, or two and it is the second padding
\* character in a row; any other padding character is skipped.  At the end of
\* the text an unfinished group raises binascii.Error.
B64Filter(t) == SelectSeq(t, LAMBDA c : B64Value(c) < 64 \/ c = B64Pad)

\* the data characters of f before offset p
B64DataBefore(f, p) == Cardinality({j \in 1..(p - 1) : f[j] # B64Pad})

\* the padding character at offset p ends the data, q characters of the
\* current group being read
B64StopsAfter(f, p, q) == q = 3 \/ (q = 2 /\ p > 1 /\ f[p - 1] = B64Pad)

B64Stops(f, p) == f[p] = B64Pad /\ B64StopsAfter(f, p, B64DataBefore(f, p) % 4)

B64StopSet(f) == {p \in 1..Len(f) : B64Stops(f, p)}

\* the data characters up to the first padding character that ends the data
B64Sextets(f, stopSet) ==
    SelectSeq(IF stopSet = {} THEN f
              ELSE SubSeq(f, 1, (CHOOSE p \in stopSet : \A q \in stopSet : p <= q) - 1),
              LAMBDA c : c # B64Pad)

\* nbytes bytes out of the sextets sx
B64Bytes(sx, nbytes) ==
    [k \in 1..nbytes |->
        IF (k - 1) % 3 = 0
        THEN B64Value(sx[4 * ((k - 1) \div 3) + 1]) * 4
             + (B64Value(sx[4 * ((k - 1) \div 3) + 2]) \div 16)
        ELSE IF (k - 1) % 3 = 1
        THEN (B64Value(sx[4 * ((k - 1) \div 3) + 2]) % 16) * 16
             + (B64Value(sx[4 * ((k - 1) \div 3) + 3]) \div 4)
        ELSE (B64Value(sx[4 * ((k - 1) \div 3) + 3]) % 4) * 64
             + B64Value(sx[4 * ((k - 1) \div 3) + 4])]

B64Assemble(sx, stopped) ==
    IF ~stopped /\ Len(sx) % 4 # 0 THEN Raised
    ELSE Ok(B64Bytes(sx, 3 * (Len(sx) \div 4)
                         + (IF Len(sx) % 4 = 0 THEN 0 ELSE (Len(sx) % 4) - 1)))

B64DecodeFiltered(f, stopSet) == B64Assemble(B64Sextets(f, stopSet), stopSet # {})

B64DecodeStops(f) == B64DecodeFiltered(f, B64StopSet(f))

B64DecodeBytes(t) == B64DecodeStops(B64Filter(t))

\* the bytes of a text, or Raised (ValueError for a character outside ASCII,
\* binascii.Error)
B64Decode(t) ==
    IF \E i \in 1..Len(t) : t[i] > 127 THEN Raised ELSE B64DecodeBytes(t)

(***************************************************************************)
(* Key derivation and the ciphers (the `cryptography` primitives, ideal).  *)
(***************************************************************************)
PadTo(s, n) == [i \in 1..n |-> IF i <= Len(s) THEN s[i] ELSE 0]

\* a key derivation that leaves the password out
derive_key_NoPassword(master_password, salt) ==
    Ok(PadTo(salt, SALT_LENGTH) \o PadTo(<<>>, KEY_LENGTH - SALT_LENGTH))

\* PBKDF2-HMAC-SHA256: a 32-byte key, injective in (password, salt) for the
\* passwords of the model (at most 15 bytes); Raised when the password cannot
\* be encoded
Pbkdf2(pb, salt) ==
    IF IsRaised(pb) THEN Raised
    ELSE Ok(PadTo(salt, SALT_LENGTH) \o <<Len(pb.v)>>
            \o PadTo(pb.v, KEY_LENGTH - SALT_LENGTH - 1))

derive_key(master_password, salt) == Pbkdf2(Utf8Encode(master_password), salt)

\* AES in counter mode: the keystream of (key, nonce) is determined by its
\* base; byte i of the keystream
KeystreamBase(key, nonce) == SeqSum(key) + 3 * SeqSum(nonce)

Keystream(base, i) == (base + 7 * i) % 256

\* a tag that does not cover the ciphertext
GcmTag_KeyOnly(key, nonce, ciphertext) ==
    [j \in 1..GCM_TAG_LENGTH |->
        (key[j] + 5 * key[j + 16] + nonce[((j - 1) % Len(nonce)) + 1]) % 256]

\* the GCM authentication tag of a ciphertext under (key, nonce)
GcmTagOver(key, nonce, h) ==
    [j \in 1..GCM_TAG_LENGTH |->
        (key[j] + 5 * key[j + 16] + nonce[((j - 1) % Len(nonce)) + 1] + h) % 256]

GcmTag(key, nonce, ciphertext) ==
    GcmTagOver(key, nonce, SeqSum(ciphertext) + Len(ciphertext))

\* the keystream applied to a byte sequence
XorStream(base, bytes) == [i \in 1..Len(bytes) |-> BitXor(bytes[i], Keystream(base, i))]

GcmXor(key, nonce, bytes) == XorStream(KeystreamBase(key, nonce), bytes)

GcmSealed(key, nonce, ct) ==
    Ok([nonce |-> nonce, ciphertext |-> ct, tag |-> GcmTag(key, nonce, ct)])

GcmSeal(pt, key, nonce) ==
    IF IsRaised(pt) THEN Raised ELSE GcmSealed(key, nonce, GcmXor(key, nonce, pt.v))

\* the nonce is the draw of os.urandom(12)
_encrypt_gcm(data, key, nonce) == GcmSeal(Utf8Encode(data), key, nonce)

\* modes.GCM rejects a nonce outside 8..128 bytes and a tag shorter than 16;
\* finalize raises InvalidTag when the tag does not verify
GcmOpen(nonce, ciphertext, tag, key) ==
    IF Len(nonce) < 8 \/ Len(nonce) > 128 \/ Len(tag) < GCM_TAG_LENGTH THEN Raised
    ELSE IF tag # GcmTag(key, nonce, ciphertext) THEN Raised
    ELSE Ok(GcmXor(key, nonce, ciphertext))

\* data.decode('utf-8') of what the cipher returned
DecodePlain(data) == IF IsRaised(data) THEN Raised ELSE Utf8Decode(data.v)

_decrypt_gcm(nonce, ciphertext, tag, key) ==
    DecodePlain(GcmOpen(nonce, ciphertext, tag, key))

\* AES as a keyed permutation of 16-byte blocks
BlockEnc(key, x) == [i \in 1..16 |-> (x[i] + key[i] + key[i + 16]) % 256]

BlockDec(key, y) == [i \in 1..16 |-> (y[i] - key[i] - key[i + 16]) % 256]

XorBlock(a, b) == [i \in 1..16 |-> BitXor(a[i], b[i])]

\* a decryptor that xors every block with the IV instead of the block before
RECURSIVE CbcDecryptRec_IvOnly(_, _, _)
CbcDecryptRec_IvOnly(key, prev, ct) ==
    IF ct = <<>> THEN <<>>
    ELSE XorBlock(BlockDec(key, SubSeq(ct, 1, 16)), prev)
         \o CbcDecryptRec_IvOnly(key, prev, SliceFrom(ct, 16))

RECURSIVE CbcDecryptRec(_, _, _)
CbcDecryptRec(key, prev, ct) ==
    IF ct = <<>> THEN <<>>
    ELSE XorBlock(BlockDec(key, SubSeq(ct, 1, 16)), prev)
         \o CbcDecryptRec(key, SubSeq(ct, 1, 16), SliceFrom(ct, 16))

\* padding.PKCS7(128).unpadder() with n the last byte: Raised (ValueError) on
\* invalid padding
Pkcs7Strip(padded, n) ==
    IF n < 1 \/ n > 16 \/ n > Len(padded) THEN Raised
    ELSE IF \E i \in (Len(padded) - n + 1)..Len(padded) : padded[i] # n THEN Raised
    ELSE Ok(SubSeq(padded, 1, Len(padded) - n))

Pkcs7Unpad(padded) ==
    IF padded = <<>> THEN Raised ELSE Pkcs7Strip(padded, padded[Len(padded)])

\* modes.CBC rejects an IV that is not 16 bytes; finalize raises when the
\* ciphertext is not a multiple of the block length
_decrypt_cbc(iv, ciphertext, key) ==
    IF Len(iv) # IV_LENGTH \/ Len(ciphertext) % 16 # 0 THEN Raised
    ELSE DecodePlain(Pkcs7Unpad(CbcDecryptRec(key, iv, ciphertext)))

\* padding.PKCS7(128).padder(): 1..16 bytes, each the number of bytes added
Pkcs7Pad(data) ==
    data \o [i \in 1..(16 - (Len(data) % 16)) |-> 16 - (Len(data) % 16)]

\* the CBC encryptor: out is the IV followed by the blocks written so far,
\* each block the cipher of the plaintext block xor the block before it
RECURSIVE CbcEncryptRec(_, _, _)
CbcEncryptRec(key, out, pt) ==
    IF pt = <<>> THEN out
    ELSE CbcEncryptRec(key,
                       out \o BlockEnc(key, XorBlock(SubSeq(pt, 1, 16),
                                                     SubSeq(out, Len(out) - 15, Len(out)))),
                       SliceFrom(pt, 16))

\* encryption.py 117-142; iv is the draw of os.urandom(16)
_encrypt_cbc(data, key, iv) ==
    IF IsRaised(Utf8Encode(data)) THEN Raised
    ELSE Ok([iv |-> iv,
             ciphertext |-> SliceFrom(CbcEncryptRec(key, iv, Pkcs7Pad(Utf8Encode(data).v)),
                                      IV_LENGTH)])

(***************************************************************************)
(* The container: version(1) + salt(16) + nonce(12) + tag(16) + ciphertext *)
(* in base64.  salt and nonce are the draws of os.urandom.                 *)
(***************************************************************************)
\* a container with the nonce written before the salt
Container_NonceFirst(salt, g) ==
    IF g.k = "raised" THEN g
    ELSE [k |-> "ok",
          v |-> B64Encode(<<CURRENT_VERSION>> \o g.v.nonce \o salt \o g.v.tag
                          \o g.v.ciphertext)]

\* a container labelled with the version byte of the CBC layout
Container_Version1(salt, g) ==
    IF IsRaised(g) THEN Raised
    ELSE Ok(B64Encode(<<VERSION_CBC>> \o salt \o g.v.nonce \o g.v.tag
                      \o g.v.ciphertext))

\* encryption.py 218-219: the container of what _encrypt_gcm returned
Container(salt, g) ==
    IF IsRaised(g) THEN Raised
    ELSE Ok(B64Encode(<<CURRENT_VERSION>> \o salt \o g.v.nonce \o g.v.tag
                      \o g.v.ciphertext))

EncryptWithKey(data, key, salt, nonce) ==
    IF IsRaised(key) THEN Raised ELSE Container(salt, _encrypt_gcm(data, key.v, nonce))

\* an encryption that keys and labels every container with one constant salt
encrypt_password_data_FixedSalt(data, master_password, salt, nonce) ==
    EncryptWithKey(data, derive_key(master_password, PadTo(<<>>, SALT_LENGTH)),
                   PadTo(<<>>, SALT_LENGTH), nonce)

encrypt_password_data(data, master_password, salt, nonce) ==
    EncryptWithKey(data, derive_key(master_password, salt), salt, nonce)

GcmWithKey(nonce, ciphertext, tag, key) ==
    IF IsRaised(key) THEN Raised ELSE _decrypt_gcm(nonce, ciphertext, tag, key.v)

CbcWithKey(iv, ciphertext, key) ==
    IF IsRaised(key) THEN Raised ELSE _decrypt_cbc(iv, ciphertext, key.v)

\* encryption.py 239-274: the three layouts, by the first byte
DecryptDecoded(decoded, master_password) ==
    IF Len(decoded) < 1 THEN None
    ELSE IF decoded[1] = VERSION_GCM
    THEN GcmWithKey(Slice(decoded, 1 + SALT_LENGTH, 1 + SALT_LENGTH + 12),
                    SliceFrom(decoded, 1 + SALT_LENGTH + 12 + GCM_TAG_LENGTH),
                    Slice(decoded, 1 + SALT_LENGTH + 12,
                          1 + SALT_LENGTH + 12 + GCM_TAG_LENGTH),
                    derive_key(master_password, Slice(decoded, 1, 1 + SALT_LENGTH)))
    ELSE IF decoded[1] = VERSION_CBC
    THEN CbcWithKey(Slice(decoded, 1 + SALT_LENGTH, 1 + SALT_LENGTH + IV_LENGTH),
                    SliceFrom(decoded, 1 + SALT_LENGTH + IV_LENGTH),
                    derive_key(master_password, Slice(decoded, 1, 1 + SALT_LENGTH)))
    ELSE CbcWithKey(Slice(decoded, SALT_LENGTH, SALT_LENGTH + IV_LENGTH),
                    SliceFrom(decoded, SALT_LENGTH + IV_LENGTH),
                    derive_key(master_password, Slice(decoded, 0, SALT_LENGTH)))

\* a decoder that takes text it cannot decode for the empty plaintext
DecryptB64_Lenient(b64, master_password) ==
    IF IsRaised(b64) THEN Ok(<<>>) ELSE DecryptDecoded(b64.v, master_password)

DecryptB64(b64, master_password) ==
    IF IsRaised(b64) THEN Raised ELSE DecryptDecoded(b64.v, master_password)

\* the body of the try block: Ok(string), None or Raised
DecryptBody(encrypted_data, master_password) ==
    DecryptB64(B64Decode(encrypted_data), master_password)

\* except Exception: return None
NoneIfRaised(r) == IF IsRaised(r) THEN None ELSE r

\* a decryption without the handler of lines 276-278
decrypt_password_data_NoHandler(encrypted_data, master_password) ==
    DecryptBody(encrypted_data, master_password)

\* encryption.py 236-270: the text is not base64, or its bytes end before
\* the fixed fields of the layout their first byte selects
Undecodable(encrypted_data) ==
    \/ IsRaised(B64Decode(encrypted_data))
    \/ Len(B64Decode(encrypted_data).v) < 1
    \/ Len(B64Decode(encrypted_data).v)
          < (IF B64Decode(encrypted_data).v[1] = VERSION_GCM
             THEN 1 + SALT_LENGTH + GCM_NONCE_LENGTH + GCM_TAG_LENGTH
             ELSE IF B64Decode(encrypted_data).v[1] = VERSION_CBC
             THEN 1 + SALT_LENGTH + IV_LENGTH
             ELSE SALT_LENGTH + IV_LENGTH)

decrypt_password_data(encrypted_data, master_password) ==
    NoneIfRaised(DecryptBody(encrypted_data, master_password))

\* a migration that encrypts the empty text in place of the decrypted one
MigrateDecrypted_EmptyText(decrypted, master_password, salt, nonce) ==
    IF IsRaised(decrypted) THEN Raised
    ELSE IF IsNone(decrypted) THEN None
    ELSE encrypt_password_data(<<>>, master_password, salt, nonce)

\* encryption.py 294-298: what migrate_to_gcm does with the decrypted text
MigrateDecrypted(decrypted, master_password, salt, nonce) ==
    IF IsRaised(decrypted) THEN Raised
    ELSE IF IsNone(decrypted) THEN None
    ELSE encrypt_password_data(decrypted.v, master_password, salt, nonce)

\* encryption.py 281-298; salt and nonce are the draws of the re-encryption
migrate_to_gcm(encrypted_data, master_password, salt, nonce) ==
    MigrateDecrypted(decrypt_password_data(encrypted_data, master_password),
                     master_password, salt, nonce)

\* a container of the legacy layouts, as the versions before GCM wrote it and
\* as tests/test_encryption.py 158-168 builds it: prefix is the version byte
\* 1, or nothing for the layout without a version byte
LegacyContainer(prefix, salt, key, data, iv) ==
    IF IsRaised(key) THEN Raised
    ELSE IF IsRaised(_encrypt_cbc(data, key.v, iv)) THEN Raised
    ELSE Ok(B64Encode(prefix \o salt \o _encrypt_cbc(data, key.v, iv).v.iv
                      \o _encrypt_cbc(data, key.v, iv).v.ciphertext))

legacy_encrypted(prefix, data, password, salt, iv) ==
    LegacyContainer(prefix, salt, derive_key(password, salt), data, iv)

(***************************************************************************)
(* models.py: PasswordEntry and its dictionary form.  A field value is a   *)
(* string; notes may be None (NoneStr).                                    *)
(***************************************************************************)
\* None in a field of type Optional[str]
NoneStr == <<-1>>

KeyOrder == <<"id", "name", "username", "password", "notes", "created_at", "updated_at">>

Keys == {KeyOrder[i] : i \in 1..Len(KeyOrder)}

\* what uuid.uuid4() and datetime.now().isoformat() give when a key is missing
FreshId == <<63>>

NowStamp == <<33>>

to_dict(e) ==
    [k \in Keys |->
        CASE k = "id" -> e.id
          [] k = "name" -> e.name
          [] k = "username" -> e.username
          [] k = "password" -> e.password
          [] k = "notes" -> e.notes
          [] k = "created_at" -> e.created_at
          [] k = "updated_at" -> e.updated_at]

\* dict.get(key, default)
DictGet(d, k, default) == IF k \in DOMAIN d THEN d[k] ELSE default

\* a from_dict that gives every entry a new id
from_dict_NewId(d) ==
    IF ~({"name", "username", "password"} \subseteq DOMAIN d) THEN Raised
    ELSE Ok([id |-> FreshId,
             name |-> d["name"],
             username |-> d["username"],
             password |-> d["password"],
             notes |-> DictGet(d, "notes", NoneStr),
             created_at |-> DictGet(d, "created_at", NowStamp),
             updated_at |-> DictGet(d, "updated_at", NowStamp)])

\* Raised (KeyError) when name, username or password is missing
from_dict(d) ==
    IF ~({"name", "username", "password"} \subseteq DOMAIN d) THEN Raised
    ELSE Ok([id |-> DictGet(d, "id", FreshId),
             name |-> d["name"],
             username |-> d["username"],
             password |-> d["password"],
             notes |-> DictGet(d, "notes", NoneStr),
             created_at |-> DictGet(d, "created_at", NowStamp),
             updated_at |-> DictGet(d, "updated_at", NowStamp)])

(***************************************************************************)
(* json.dumps / json.loads on the vault payload {"entries": [...]}.  The   *)
(* text keeps JSON's structure with one character per key: braces and      *)
(* brackets, a key character before each value, strings in double quotes,  *)
(* n for null.                                                             *)
(***************************************************************************)
KeyChar(k) ==
    CASE k = "id" -> 105
      [] k = "name" -> 109
      [] k = "username" -> 117
      [] k = "password" -> 112
      [] k = "notes" -> 111
      [] k = "created_at" -> 99
      [] k = "updated_at" -> 100

KeyOfChar(ch) == CHOOSE k \in Keys : KeyChar(k) = ch

IsKeyChar(ch) == \E k \in Keys : KeyChar(k) = ch

RECURSIVE JsonEscape(_)
\* a quote or a backslash of a string is written after a backslash
JsonEscape(v) ==
    IF v = <<>> THEN <<>>
    ELSE (IF Head(v) = 34 \/ Head(v) = 92 THEN <<92, Head(v)>> ELSE <<Head(v)>>)
         \o JsonEscape(Tail(v))

JsonValue(v) == IF v = NoneStr THEN <<110>> ELSE <<34>> \o JsonEscape(v) \o <<34>>

RECURSIVE JsonMembers(_, _)
JsonMembers(d, i) ==
    IF i > Len(KeyOrder) THEN <<>>
    ELSE (IF KeyOrder[i] \in DOMAIN d
          THEN <<KeyChar(KeyOrder[i])>> \o JsonValue(d[KeyOrder[i]])
          ELSE <<>>) \o JsonMembers(d, i + 1)

JsonDict(d) == <<123>> \o JsonMembers(d, 1) \o <<125>>

RECURSIVE JsonDicts(_)
JsonDicts(ds) == IF ds = <<>> THEN <<>> ELSE JsonDict(Head(ds)) \o JsonDicts(Tail(ds))

\* json.dumps({"entries": ds})
JsonDumps(ds) == <<123, 69, 91>> \o JsonDicts(ds) \o <<93, 125>>

ParseFail == [ok |-> FALSE, val |-> <<>>, next |-> 0]

RECURSIVE ParseStringEnd(_, _)
\* the offset of the closing quote at or after i, 0 when there is none
ParseStringEnd(t, i) ==
    IF i > Len(t) THEN 0
    ELSE IF t[i] = 92 THEN ParseStringEnd(t, i + 2)
    ELSE IF t[i] = 34 THEN i
    ELSE ParseStringEnd(t, i + 1)

RECURSIVE JsonUnescape(_)
\* the characters of a string between its quotes
JsonUnescape(x) ==
    IF x = <<>> THEN <<>>
    ELSE IF Head(x) = 92 /\ Len(x) >= 2
         THEN <<x[2]>> \o JsonUnescape(SubSeq(x, 3, Len(x)))
    ELSE <<Head(x)>> \o JsonUnescape(Tail(x))

\* a string from the opening quote at i to the closing quote at j
ParseString(t, i, j) ==
    IF j = 0 THEN ParseFail
    ELSE [ok |-> TRUE, val |-> JsonUnescape(Slice(t, i, j - 1)), next |-> j + 1]

ParseValue(t, i) ==
    IF i > Len(t) THEN ParseFail
    ELSE IF t[i] = 110 THEN [ok |-> TRUE, val |-> NoneStr, next |-> i + 1]
    ELSE IF t[i] = 34 THEN ParseString(t, i, ParseStringEnd(t, i + 1))
    ELSE ParseFail

\* d with key k set to v
DictSet(d, k, v) == [x \in DOMAIN d \cup {k} |-> IF x = k THEN v ELSE d[x]]

RECURSIVE ParseMembers(_, _, _)
\* the member with key k and parsed value v, then the members after it
ParseMember(t, d, k, v) ==
    IF ~v.ok THEN ParseFail ELSE ParseMembers(t, v.next, DictSet(d, k, v.val))

ParseMembers(t, i, d) ==
    IF i > Len(t) THEN ParseFail
    ELSE IF t[i] = 125 THEN [ok |-> TRUE, val |-> d, next |-> i + 1]
    ELSE IF ~IsKeyChar(t[i]) THEN ParseFail
    ELSE ParseMember(t, d, KeyOfChar(t[i]), ParseValue(t, i + 1))

RECURSIVE ParseDicts(_, _, _)
\* a parser that puts each dictionary in front of the ones before it
ParseDict_Prepend(t, acc, d) ==
    IF ~d.ok THEN ParseFail ELSE ParseDicts(t, d.next, <<d.val>> \o acc)

\* the parsed dictionary d, then the dictionaries after it
ParseDict(t, acc, d) ==
    IF ~d.ok THEN ParseFail ELSE ParseDicts(t, d.next, Append(acc, d.val))

ParseDicts(t, i, acc) ==
    IF i > Len(t) THEN ParseFail
    ELSE IF t[i] = 93 THEN [ok |-> TRUE, val |-> acc, next |-> i + 1]
    ELSE IF t[i] # 123 THEN ParseFail
    ELSE ParseDict(t, acc, ParseMembers(t, i + 1, [x \in {} |-> <<>>]))

\* the list ds parsed out of t must end at the closing brace
ParseEnd(t, ds) ==
    IF ~ds.ok THEN Raised
    ELSE IF ds.next # Len(t) \/ t[Len(t)] # 125 THEN Raised
    ELSE Ok(ds.val)

\* json.loads followed by data.get("entries", []): the list of dictionaries,
\* or Raised (JSONDecodeError)
JsonLoadsEntries(t) ==
    IF t = <<123, 125>> THEN Ok(<<>>)
    ELSE IF Len(t) < 5 \/ Slice(t, 0, 3) # <<123, 69, 91>> THEN Raised
    ELSE ParseEnd(t, ParseDicts(t, 4, <<>>))

(***************************************************************************)
(* storage.py: the read side.  A file is [exists, data, mode].             *)
(***************************************************************************)
NoFile == [exists |-> FALSE, data |-> <<>>, mode |-> 0]

File(data, mode) == [exists |-> TRUE, data |-> data, mode |-> mode]

file_exists(f) == f.exists

\* storage.py 187-192: the entries of the parsed dictionaries
EntriesOf(ds) ==
    IF IsRaised(ds) THEN Raised
    ELSE IF \E i \in 1..Len(ds.v) : IsRaised(from_dict(ds.v[i])) THEN Raised
    ELSE Ok([i \in 1..Len(ds.v) |-> from_dict(ds.v[i]).v])

\* storage.py 183-192: after decrypt_password_data returned json_data
LoadJson(json_data) ==
    IF IsNone(json_data) THEN None ELSE EntriesOf(JsonLoadsEntries(json_data.v))

\* a load that takes a missing file for one it cannot decrypt
load_AbsentIsNone(f, master_password) ==
    IF ~file_exists(f) THEN None
    ELSE LoadJson(decrypt_password_data(f.data, master_password))

\* Ok(list of entries), None (decryption failed) or Raised
load(f, master_password) ==
    IF ~file_exists(f) THEN Ok(<<>>)
    ELSE LoadJson(decrypt_password_data(f.data, master_password))

\* a check that takes any result of load for a success
IsNotNone_Always(r) == IF IsRaised(r) THEN Raised ELSE Ok(TRUE)

\* storage.py 220: load(...) is not None
IsNotNone(r) == IF IsRaised(r) THEN Raised ELSE Ok(~IsNone(r))

\* a check without the test for a missing file
is_valid_master_password_NoFileTest(f, master_password) ==
    IF IsRaised(load(f, master_password)) THEN Raised
    ELSE Ok(~IsNone(load(f, master_password)))

\* Ok(TRUE), Ok(FALSE) or Raised (load raised)
is_valid_master_password(f, master_password) ==
    IF ~file_exists(f) THEN Ok(FALSE) ELSE IsNotNone(load(f, master_password))

\* the text save encrypts
SavePayload(entries) == JsonDumps([i \in 1..Len(entries) |-> to_dict(entries[i])])

(***************************************************************************)
(* Inputs of the model.                                                    *)
(***************************************************************************)
\* draws of os.urandom(16) and os.urandom(12)
Salt(b) == [i \in 1..SALT_LENGTH |-> (b * i) % 256]

Nonce(b) == [i \in 1..GCM_NONCE_LENGTH |-> (b + i) % 256]

SaltPool == {Salt(1), Salt(201)}

NoncePool == {Nonce(3), Nonce(77)}

\* master passwords: "p", "q" followed by e-acute, and the empty password
Passwords == {<<112>>, <<113, 233>>}

CryptoPasswords == Passwords \cup {<<>>}

\* characters of 1, 2, 3 and 4 bytes in UTF-8
TextChars == {65, 233, 8364, 128512}

RECURSIVE SeqsUpTo(_, _)
SeqsUpTo(S, n) ==
    IF n = 0 THEN {<<>>}
    ELSE LET shorter == SeqsUpTo(S, n - 1)
         IN  shorter \cup {Append(s, x) : s \in shorter, x \in S}

Texts == SeqsUpTo(TextChars, MaxTextLen)

\* permission bits a new file gets from open(): 0o666 less the umask
CreateModes == {420}

\* permission bits of the storage directory when the store is constructed
DirModes == {448}

Entry1 ==
    [id |-> <<49>>, name |-> <<103>>, username |-> <<97>>, password |-> <<120>>,
     notes |-> NoneStr, created_at |-> <<56>>, updated_at |-> <<56>>]

Entry2 ==
    [id |-> <<50>>, name |-> <<101>>, username |-> <<98>>, password |-> <<34, 92>>,
     notes |-> <<122>>, created_at |-> <<56>>, updated_at |-> <<57>>]

EntryPool == {Entry1, Entry2}

\* the lists a caller holds: entries carry distinct ids (uuid4)
EntryLists ==
    {l \in SeqsUpTo(EntryPool, MaxEntries) :
        \A i, j \in 1..Len(l) : i # j => l[i].id # l[j].id}

\* the (salt, nonce) draw of a save
SaveDraws == {<<Salt(201), Nonce(77)>>}

\* storage.py 130-137: what a call save(entries, master_password) has in hand
\* before it touches a file, for every call and draw of the model
SaveCalls ==
    {[entries |-> e, pw |-> p,
      data |-> encrypt_password_data(SavePayload(e), p, d[1], d[2])] :
        e \in EntryLists, p \in Passwords, d \in SaveDraws}

(***************************************************************************)
(* Spec: one process working on the vault file.  save is a sequence of     *)
(* steps (pc), each of which can fail as the operating system lets it; the *)
(* process can crash between any two steps.  sv is the frame of the save   *)
(* in progress; sv.old (the vault file when save was called), sv.failed,   *)
(* committed (the arguments of the save whose rename last replaced the     *)
(* vault file), tampered and crashed are history variables; ret is what    *)
(* the last finished call gave its caller.  The model starts no save after *)
(* a crash or while a stale temporary file exists.                         *)
(***************************************************************************)
StoreInit ==
    /\ vault = NoFile
    /\ tmp = NoFile
    /\ dirMode \in DirModes
    /\ pc = "idle"
    /\ sv = <<>>
    /\ ret = [op |-> "none"]
    /\ committed = [valid |-> FALSE]
    /\ tampered = FALSE
    /\ crashed = FALSE

CryptoIdle == [stage |-> "off"]

Init == StoreInit /\ cx = CryptoIdle

SaveBegin(op, call) ==
    /\ pc = "idle"
    /\ ~tampered /\ ~crashed /\ ~tmp.exists
    /\ IsOk(call.data)
    /\ sv' = [op |-> op, entries |-> call.entries, pw |-> call.pw, data |-> call.data.v,
              old |-> vault, exc |-> FALSE, failed |-> "none", chmodFailed |-> FALSE]
    /\ pc' = "open"
    /\ ret' = [op |-> "none"]
    /\ UNCHANGED <<vault, tmp, dirMode, committed, tampered, crashed, cx>>

\* storage.py 122-137
Save(call) == SaveBegin("save", call)

\* an initialize that leaves an existing vault file alone
Initialize_SkipExisting(call) ==
    IF vault.exists
    THEN /\ pc = "idle"
         /\ ~tampered /\ ~crashed /\ ~tmp.exists
         /\ call.entries = <<>>
         /\ ret' = [op |-> "initialize", res |-> None, pw |-> call.pw, entries |-> <<>>,
                    failed |-> "none", chmodFailed |-> FALSE, old |-> vault]
         /\ UNCHANGED <<vault, tmp, dirMode, pc, sv, committed, tampered, crashed, cx>>
    ELSE call.entries = <<>> /\ SaveBegin("initialize", call)

\* storage.py 202: initialize saves the empty list
Initialize(call) == call.entries = <<>> /\ SaveBegin("initialize", call)

\* a failing step whose exception is dropped
Throw_Swallowed(step) ==
    /\ sv' = [sv EXCEPT !.failed = step]
    /\ pc' = "finally"

\* the step raises: control goes to the finally block with the exception
\* pending
Throw(step) ==
    /\ sv' = [sv EXCEPT !.exc = TRUE, !.failed = step]
    /\ pc' = "finally"

\* what the caller has when the call is over: the result (None, or Raised
\* when the exception went on to it) and the frame of the call
Returned(res) ==
    [op |-> sv.op, res |-> res, pw |-> sv.pw, entries |-> sv.entries,
     failed |-> sv.failed, chmodFailed |-> sv.chmodFailed, old |-> sv.old]

\* storage.py 142: open(temp_file, 'w') creates the file, with one of the
\* modes the umask allows, or truncates it
SaveOpenModes(modes) ==
    /\ pc = "open"
    /\ \/ /\ \E m \in modes :
                tmp' = File(<<>>, IF tmp.exists THEN tmp.mode ELSE m)
          /\ pc' = "write"
          /\ UNCHANGED sv
       \/ Throw("open") /\ UNCHANGED tmp
    /\ UNCHANGED <<vault, dirMode, ret, committed, tampered, crashed, cx>>

SaveOpen == SaveOpenModes(CreateModes)

\* how much of the text a flush may have put in the file
WritePoints(data) == {Len(data) \div 2, Len(data)}

\* a write that goes to the vault file itself
SaveWrite_InPlace ==
    /\ pc = "write"
    /\ \E k \in WritePoints(sv.data) :
          /\ vault' = File(SubSeq(sv.data, 1, k), tmp.mode)
          /\ pc' = IF k = Len(sv.data) THEN "chmod_tmp" ELSE "write"
    /\ UNCHANGED <<tmp, dirMode, sv, ret, committed, tampered, crashed, cx>>

\* storage.py 143: f.write and the close of the with block
SaveWrite ==
    /\ pc = "write"
    /\ \/ \E k \in WritePoints(sv.data) :
            /\ k > Len(tmp.data)
            /\ tmp' = [tmp EXCEPT !.data = SubSeq(sv.data, 1, k)]
            /\ pc' = IF k = Len(sv.data) THEN "chmod_tmp" ELSE "write"
            /\ UNCHANGED sv
       \/ Throw("write") /\ UNCHANGED tmp
    /\ UNCHANGED <<vault, dirMode, ret, committed, tampered, crashed, cx>>

\* a chmod that leaves the mode as it is
_set_secure_file_permissions_Keep(f) == f

\* storage.py 45-61: the mode is reduced to the owner's read and write bits
_set_secure_file_permissions(f) == [f EXCEPT !.mode = BitAnd(f.mode, SECURE_FILE_MODE)]

\* storage.py 146; an OSError of os.stat or os.chmod is swallowed (59-61)
SaveChmodTmp ==
    /\ pc = "chmod_tmp"
    /\ \/ tmp' = _set_secure_file_permissions(tmp) /\ UNCHANGED sv
       \/ UNCHANGED tmp /\ sv' = [sv EXCEPT !.chmodFailed = TRUE]
    /\ pc' = "replace"
    /\ UNCHANGED <<vault, dirMode, ret, committed, tampered, crashed, cx>>

\* a replace that copies the temporary file and leaves it in place
SaveReplace_Copy ==
    /\ pc = "replace"
    /\ vault' = tmp
    /\ committed' = [valid |-> TRUE, entries |-> sv.entries, pw |-> sv.pw]
    /\ pc' = "chmod_final"
    /\ UNCHANGED <<tmp, sv, dirMode, ret, tampered, crashed, cx>>

\* storage.py 149: os.replace(temp_file, self.file_path)
SaveReplace ==
    /\ pc = "replace"
    /\ \/ /\ vault' = tmp
          /\ tmp' = NoFile
          /\ committed' = [valid |-> TRUE, entries |-> sv.entries, pw |-> sv.pw]
          /\ pc' = "chmod_final"
          /\ UNCHANGED sv
       \/ Throw("replace") /\ UNCHANGED <<vault, tmp, committed>>
    /\ UNCHANGED <<dirMode, ret, tampered, crashed, cx>>

\* storage.py 152
SaveChmodFinal ==
    /\ pc = "chmod_final"
    /\ \/ vault' = _set_secure_file_permissions(vault)
       \/ UNCHANGED vault
    /\ pc' = "finally"
    /\ UNCHANGED <<tmp, dirMode, sv, ret, committed, tampered, crashed, cx>>

\* storage.py 154-160: the temporary file is removed if it is there (an
\* OSError of os.remove is swallowed); then save returns, or the exception
\* goes on to the caller
SaveFinally ==
    /\ pc = "finally"
    /\ \/ tmp' = NoFile
       \/ tmp.exists /\ UNCHANGED tmp
    /\ IF sv.op = "initialize" /\ ~sv.exc
       THEN pc' = "init_dir" /\ UNCHANGED <<ret, sv>>
       ELSE /\ pc' = "idle"
            /\ ret' = Returned(IF sv.exc THEN Raised ELSE None)
            /\ sv' = <<>>
    /\ UNCHANGED <<vault, dirMode, committed, tampered, crashed, cx>>

\* storage.py 63-76
_set_secure_dir_permissions(mode) == BitAnd(mode, SECURE_DIR_MODE)

\* storage.py 205: initialize ends by securing the directory
InitializeDir ==
    /\ pc = "init_dir"
    /\ \/ dirMode' = _set_secure_dir_permissions(dirMode)
       \/ UNCHANGED dirMode
    /\ pc' = "idle"
    /\ ret' = Returned(None)
    /\ sv' = <<>>
    /\ UNCHANGED <<vault, tmp, committed, tampered, crashed, cx>>

\* the process dies between two steps of a save: nothing more of it runs
Crash ==
    /\ pc # "idle"
    /\ pc' = "idle"
    /\ sv' = <<>>
    /\ ret' = [op |-> "crash", at |-> pc, old |-> sv.old, data |-> sv.data]
    /\ crashed' = TRUE
    /\ UNCHANGED <<vault, tmp, dirMode, committed, tampered, cx>>

\* a load that rewrites the file it read in the current layout
Load_Migrating(master_password) ==
    /\ pc = "idle"
    /\ ret' = [op |-> "load", pw |-> master_password,
               res |-> load(vault, master_password)]
    /\ vault' = IF vault.exists
                   /\ IsOk(migrate_to_gcm(vault.data, master_password, Salt(2), Nonce(77)))
                THEN [vault EXCEPT !.data =
                        migrate_to_gcm(vault.data, master_password, Salt(2), Nonce(77)).v]
                ELSE vault
    /\ UNCHANGED <<tmp, dirMode, pc, sv, committed, tampered, crashed, cx>>

\* storage.py 162-192
Load(master_password) ==
    /\ pc = "idle"
    /\ ret' = [op |-> "load", pw |-> master_password,
               res |-> load(vault, master_password)]
    /\ UNCHANGED <<vault, tmp, dirMode, pc, sv, committed, tampered, crashed, cx>>

\* storage.py 207-220
IsValid(master_password) ==
    /\ pc = "idle"
    /\ ~crashed
    /\ ret' = [op |-> "is_valid", pw |-> master_password,
               res |-> is_valid_master_password(vault, master_password)]
    /\ UNCHANGED <<vault, tmp, dirMode, pc, sv, committed, tampered, crashed, cx>>

Next ==
    \/ \E call \in SaveCalls : Save(call)
    \/ \E call \in SaveCalls : Initialize(call)
    \/ SaveOpen
    \/ SaveWrite
    \/ SaveChmodTmp
    \/ SaveReplace
    \/ SaveChmodFinal
    \/ SaveFinally
    \/ InitializeDir
    \/ Crash
    \/ \E p \in Passwords : Load(p)
    \/ \E p \in Passwords : IsValid(p)

Spec == Init /\ [][Next]_vars

(***************************************************************************)
(* SpecTamper: a vault file written by save, one bit of whose              *)
(* authentication tag or ciphertext is then changed on disk, and read.     *)
(***************************************************************************)
\* the saves whose files are tampered with
TamperCalls == {c \in SaveCalls : Len(c.entries) <= 1}

TamperInit ==
    /\ \E c \in TamperCalls :
          /\ vault = File(c.data.v, SECURE_FILE_MODE)
          /\ committed = [valid |-> TRUE, entries |-> c.entries, pw |-> c.pw]
    /\ tmp = NoFile
    /\ dirMode = SECURE_DIR_MODE
    /\ pc = "idle"
    /\ sv = <<>>
    /\ ret = [op |-> "none"]
    /\ tampered = FALSE
    /\ crashed = FALSE
    /\ cx = CryptoIdle

FlipBit(byte, bit) == BitXor(byte, 2 ^ bit)

\* encryption.py 218: the offsets (1-based) of the tag and the ciphertext in
\* the bytes of a container
TagAndCiphertext(decoded) == (1 + SALT_LENGTH + GCM_NONCE_LENGTH + 1)..Len(decoded)

\* the bytes of the file with bit `bit` of byte i changed
Tampered(decoded, i, bit) ==
    B64Encode([decoded EXCEPT ![i] = FlipBit(decoded[i], bit)])

Tamper(i, bit) ==
    /\ pc = "idle"
    /\ ~tampered
    /\ vault.exists
    /\ i \in TagAndCiphertext(B64DecodeBytes(vault.data).v)
    /\ vault' = [vault EXCEPT !.data = Tampered(B64DecodeBytes(vault.data).v, i, bit)]
    /\ tampered' = TRUE
    /\ ret' = [op |-> "none"]
    /\ UNCHANGED <<tmp, dirMode, pc, sv, committed, crashed, cx>>

TamperNext ==
    \/ \E i \in 1..Len(vault.data), bit \in 0..7 : Tamper(i, bit)
    \/ \E p \in Passwords : Load(p)

SpecTamper == TamperInit /\ [][TamperNext]_vars

(***************************************************************************)
(* SpecCrypto: encrypt_password_data and decrypt_password_data applied to  *)
(* drawn inputs.                                                           *)
(***************************************************************************)
CryptoInit ==
    /\ StoreInit
    /\ dirMode = SECURE_DIR_MODE
    /\ cx \in {[stage |-> "input", P |-> P, M |-> M] : P \in Texts, M \in CryptoPasswords}

CryptoEncrypt(salt, nonce) ==
    /\ cx.stage = "input"
    /\ cx' = [stage |-> "encrypted", P |-> cx.P, M |-> cx.M,
              enc |-> encrypt_password_data(cx.P, cx.M, salt, nonce)]
    /\ UNCHANGED storeVars

CryptoDecrypt(p) ==
    /\ cx.stage = "encrypted"
    /\ IsOk(cx.enc)
    /\ cx' = [stage |-> "decrypted", P |-> cx.P, M |-> cx.M, enc |-> cx.enc,
              dpw |-> p, out |-> decrypt_password_data(cx.enc.v, p)]
    /\ UNCHANGED storeVars

CryptoNext ==
    \/ \E salt \in SaltPool, nonce \in NoncePool : CryptoEncrypt(salt, nonce)
    \/ \E p \in CryptoPasswords : CryptoDecrypt(p)

SpecCrypto == CryptoInit /\ [][CryptoNext]_vars

(***************************************************************************)
(* SpecEnvelope: containers of the three layouts (version 1, no version    *)
(* byte, version 2) built from drawn plaintexts, passwords and random      *)
(* draws, and arbitrary texts that no encryption wrote; each is decrypted, *)
(* migrated or, for version 2, encrypted a second time.                    *)
(***************************************************************************)
\* the draws of os.urandom: the salt, the IV of _encrypt_cbc and the nonce of
\* _encrypt_gcm; the salts begin with the bytes 1, 2 and 201
EnvelopeDraws ==
    {[salt |-> s, iv |-> n \o <<1, 2, 3, 4>>, nonce |-> n] :
        s \in {Salt(1), Salt(2), Salt(201)}, n \in NoncePool}

\* "p", "q", and "q" followed by e-acute; decryption is also tried with a
\* password that is a lone surrogate, which str.encode rejects
EnvelopePasswords == {<<112>>, <<113>>, <<113, 233>>}

\* texts of less than one cipher block, and a vault payload of several
EnvelopeTexts == SeqsUpTo({65, 8364}, MaxTextLen) \cup {SavePayload(<<Entry1>>)}

\* texts handed to decrypt_password_data that no encryption wrote: every
\* prefix of a version-2 and of a version-1 container, the containers of
\* every prefix of their bytes, characters outside base64, a character
\* outside ASCII, a lone surrogate, and buffers with other leading bytes
RawTexts ==
    LET x2 == encrypt_password_data(<<65>>, <<112>>, Salt(201), Nonce(77)).v
        x1 == legacy_encrypted(<<VERSION_CBC>>, <<65>>, <<112>>, Salt(201),
                               Nonce(77) \o <<1, 2, 3, 4>>).v
    IN  UNION {{SubSeq(x, 1, k) : k \in 0..Len(x)} : x \in {x1, x2}}
        \cup UNION {{B64Encode(SubSeq(B64DecodeBytes(x).v, 1, k)) :
                        k \in 0..Len(B64DecodeBytes(x).v)} : x \in {x1, x2}}
        \cup {<<33, 33>>, <<8364>>, <<55296>>, <<65, 61, 61, 61>>,
              B64Encode(<<7>> \o Salt(3) \o Salt(5) \o Salt(7)),
              B64Encode(<<0>> \o Salt(3) \o Salt(5) \o Salt(7)),
              B64Encode(Salt(9) \o Salt(5) \o Salt(7))}

EnvelopeInit ==
    /\ StoreInit
    /\ dirMode = SECURE_DIR_MODE
    /\ cx \in {[stage |-> "plain", layout |-> l, P |-> P, M |-> M] :
                  l \in {"v1", "bare", "v2"}, P \in EnvelopeTexts, M \in EnvelopePasswords}
             \cup {[stage |-> "built", layout |-> "raw", enc |-> Ok(x)] : x \in RawTexts}

\* encryption.py 201-219 for version 2; the legacy writer for the others
BuildEnvelope(d) ==
    /\ cx.stage = "plain"
    /\ cx' = [stage |-> "built", layout |-> cx.layout, P |-> cx.P, M |-> cx.M,
              draw |-> d,
              enc |-> IF cx.layout = "v2"
                      THEN encrypt_password_data(cx.P, cx.M, d.salt, d.nonce)
                      ELSE legacy_encrypted(IF cx.layout = "v1" THEN <<VERSION_CBC>>
                                            ELSE <<>>,
                                            cx.P, cx.M, d.salt, d.iv)]
    /\ UNCHANGED storeVars

\* encryption.py 222-278; body is what the try block gave before the handler
DecryptEnvelope(p) ==
    /\ cx.stage = "built"
    /\ IsOk(cx.enc)
    /\ ret.op = "none"
    /\ cx' = [stage |-> "decrypted", dpw |-> p,
              body |-> DecryptBody(cx.enc.v, p),
              out |-> decrypt_password_data(cx.enc.v, p)] @@ cx
    /\ UNCHANGED storeVars

\* encryption.py 201-219 called once more on the same plaintext and password
EncryptAgain(d) ==
    /\ cx.stage = "built"
    /\ cx.layout = "v2"
    /\ ret.op = "none"
    /\ cx' = [stage |-> "twice", draw2 |-> d,
              enc2 |-> encrypt_password_data(cx.P, cx.M, d.salt, d.nonce)] @@ cx
    /\ UNCHANGED storeVars

\* encryption.py 281-298 applied to the container x
Migrate(x, p, d) ==
    /\ pc = "idle"
    /\ ret' = [op |-> "migrate", x |-> x, pw |-> p, draw |-> d,
               res |-> migrate_to_gcm(x, p, d.salt, d.nonce)]
    /\ UNCHANGED <<vault, tmp, dirMode, pc, sv, committed, tampered, crashed, cx>>

EnvelopeNext ==
    \/ \E d \in EnvelopeDraws : BuildEnvelope(d)
    \/ \E p \in EnvelopePasswords \cup {<<55296>>} : DecryptEnvelope(p)
    \/ \E d \in EnvelopeDraws : EncryptAgain(d)
    \/ \E p \in EnvelopePasswords :
          /\ cx.stage = "built" /\ IsOk(cx.enc) /\ ret.op = "none"
          /\ Migrate(cx.enc.v, p, [salt |-> Salt(201), nonce |-> Nonce(77)])

SpecEnvelope == EnvelopeInit /\ [][EnvelopeNext]_vars

(***************************************************************************)
(* SpecFiles: a vault file that an earlier version wrote in a legacy       *)
(* layout, or a version-2 file whose plaintext is not a vault payload; it  *)
(* is loaded, migrated, initialized anew or, after a successful load,      *)
(* saved; entries are written to a backup and to an encrypted export.  cx  *)
(* keeps how the file of the initial state was made.                       *)
(***************************************************************************)
\* plaintexts that are not a vault payload: the empty text, text that is not
\* JSON, a list, null, and entries without name, username or password
BadPayloads ==
    {<<>>, <<120>>, <<91, 93>>, <<110>>}
    \cup {JsonDumps(<<[k \in Keys \ {m} |-> <<97>>]>>) : m \in {"name", "username", "password"}}

\* the vault files of the initial states
VaultPool ==
    {[layout |-> l, P |-> SavePayload(<<Entry1>>), M |-> p,
      enc |-> legacy_encrypted(IF l = "v1" THEN <<VERSION_CBC>> ELSE <<>>,
                               SavePayload(<<Entry1>>), p, Salt(201),
                               Nonce(3) \o <<1, 2, 3, 4>>)] :
        l \in {"v1", "bare"}, p \in Passwords}
    \cup {[layout |-> "v2", P |-> b, M |-> p,
           enc |-> encrypt_password_data(b, p, Salt(1), Nonce(3))] :
            b \in BadPayloads, p \in Passwords}

FilesInit ==
    /\ \E f \in VaultPool :
          /\ vault = File(f.enc.v, SECURE_FILE_MODE)
          /\ cx = [stage |-> "file", layout |-> f.layout, P |-> f.P, M |-> f.M]
    /\ tmp = NoFile
    /\ dirMode = SECURE_DIR_MODE
    /\ pc = "idle"
    /\ sv = <<>>
    /\ ret = [op |-> "none"]
    /\ committed = [valid |-> FALSE]
    /\ tampered = FALSE
    /\ crashed = FALSE

\* backup.py 71-81: the text of the backup ("version": 1, "created_at",
\* "entries") and its container; the write of line 94-95 puts res in the file
create_backup(entries, master_password, d) ==
    /\ pc = "idle"
    /\ ret' = [op |-> "backup", pw |-> master_password,
               payload |-> <<123, 86, 49, 67, 34, 56, 34>> \o Tail(SavePayload(entries)),
               res |-> encrypt_password_data(<<123, 86, 49, 67, 34, 56, 34>>
                                                 \o Tail(SavePayload(entries)),
                                             master_password, d[1], d[2])]
    /\ UNCHANGED <<vault, tmp, dirMode, pc, sv, committed, tampered, crashed, cx>>

\* import_export.py 252-263: the text of the export ("exported_at",
\* "entries_count", "entries") and its container
to_encrypted(entries, master_password, d) ==
    /\ pc = "idle"
    /\ ret' = [op |-> "export", pw |-> master_password,
               payload |-> <<123, 88, 34, 56, 34, 78, 48 + Len(entries)>>
                               \o Tail(SavePayload(entries)),
               res |-> encrypt_password_data(<<123, 88, 34, 56, 34, 78, 48 + Len(entries)>>
                                                 \o Tail(SavePayload(entries)),
                                             master_password, d[1], d[2])]
    /\ UNCHANGED <<vault, tmp, dirMode, pc, sv, committed, tampered, crashed, cx>>

\* no call that only reads follows another one: they leave the files alone
AfterWrite == ret.op \in {"none", "save", "initialize"}

FilesNext ==
    \/ \E p \in Passwords : AfterWrite /\ Load(p)
    \/ \E call \in SaveCalls :
          ret.op = "load" /\ IsOk(ret.res) /\ ~committed.valid /\ Save(call)
    \/ \E call \in SaveCalls : ~committed.valid /\ ret.op = "none" /\ Initialize(call)
    \/ SaveOpen
    \/ SaveWrite
    \/ SaveChmodTmp
    \/ SaveReplace
    \/ SaveChmodFinal
    \/ SaveFinally
    \/ InitializeDir
    \/ \E e \in EntryLists, p \in Passwords, d \in SaveDraws :
          AfterWrite /\ create_backup(e, p, d)
    \/ \E e \in EntryLists, p \in Passwords, d \in SaveDraws :
          AfterWrite /\ to_encrypted(e, p, d)
    \/ \E p \in EnvelopePasswords :
          AfterWrite /\ vault.exists /\ Migrate(vault.data, p, [salt |-> Salt(2), nonce |-> Nonce(77)])

SpecFiles == FilesInit /\ [][FilesNext]_vars

(***************************************************************************)
\* C1: decrypting what encrypt_password_data(P, M) returned with the same
\* password M gives back exactly P, for every text P (the empty one included)
\* and every password M.
C1_RoundTrip ==
    (cx.stage = "decrypted" /\ cx.dpw = cx.M) => cx.out = Ok(cx.P)

C1_Witness ==
    /\ cx.stage = "decrypted"
    /\ cx.dpw = cx.M
    /\ cx.P = <<233, 8364>>
    /\ cx.out = Ok(cx.P)

\* C2: load with a master password other than the one the version-2 vault
\* file was written with returns None (it neither raises nor returns
\* entries), and so does decrypt_password_data on the text of the file.
C2_WrongPasswordNone ==
    (ret.op = "load" /\ committed.valid /\ ret.pw # committed.pw) =>
        (IsNone(ret.res) /\ IsNone(decrypt_password_data(vault.data, ret.pw)))

C2_Witness ==
    /\ ret.op = "load"
    /\ committed.valid
    /\ committed.entries # <<>>
    /\ ret.pw # committed.pw
    /\ IsNone(ret.res)

\* C3: after one bit of the authentication tag or of the ciphertext of a
\* version-2 vault file was changed, load with the password the file was
\* written with fails (it returns None); it returns no entries.
C3_TamperDetected ==
    (tampered /\ ret.op = "load" /\ ret.pw = committed.pw) => IsNone(ret.res)

C3_Witness ==
    /\ tampered
    /\ ret.op = "load"
    /\ ret.pw = committed.pw
    /\ committed.entries # <<>>
    /\ IsNone(ret.res)

\* C4: at every step of a save the vault file is either what it was when the
\* save was called or the complete text of the save, never a part of it; the
\* same holds of the vault file a crash at any step leaves behind.
C4_OldOrNew ==
    /\ pc # "idle" =>
          \/ vault.exists = sv.old.exists /\ vault.data = sv.old.data
          \/ vault.exists /\ vault.data = sv.data
    /\ ret.op = "crash" =>
          \/ vault.exists = ret.old.exists /\ vault.data = ret.old.data
          \/ vault.exists /\ vault.data = ret.data

C4_Witness ==
    /\ pc = "write"
    /\ tmp.exists
    /\ Len(tmp.data) > 0
    /\ Len(tmp.data) < Len(sv.data)
    /\ vault.exists
    /\ vault = sv.old
    /\ vault.data # sv.data

\* C5 (as the specification states it): when writing the temporary file,
\* changing its permissions or renaming it raised, save ended with the
\* exception at its caller and the vault file is as it was before the call.
C5_Original ==
    (ret.op \in {"save", "initialize"} /\ (ret.failed # "none" \/ ret.chmodFailed)) =>
        (IsRaised(ret.res) /\ vault = ret.old)

\* C5: when opening or writing the temporary file or renaming it raised, save
\* ended with the exception at its caller and the vault file is as it was
\* before the call.  (An error changing the permissions is swallowed.)
C5_WriteOrRenameFails ==
    (ret.op \in {"save", "initialize"} /\ ret.failed # "none") =>
        (IsRaised(ret.res) /\ vault = ret.old)

C5_Witness ==
    /\ ret.op = "save"
    /\ ret.failed = "replace"
    /\ IsRaised(ret.res)
    /\ vault.exists
    /\ vault = ret.old

\* C6: when save(entries, M) has returned, load(M) gives exactly those
\* entries in their order; and whatever was read since, a load with the
\* password of the last save returns the entries of that save.
C6_LoadAfterSave ==
    /\ (ret.op = "save" /\ IsNone(ret.res)) =>
          /\ committed = [valid |-> TRUE, entries |-> ret.entries, pw |-> ret.pw]
          /\ load(vault, ret.pw) = Ok(ret.entries)
    /\ (ret.op = "load" /\ committed.valid /\ ret.pw = committed.pw) =>
          ret.res = Ok(committed.entries)

C6_Witness ==
    /\ ret.op = "load"
    /\ committed.valid
    /\ ret.pw = committed.pw
    /\ committed.entries = <<Entry2, Entry1>>
    /\ ret.res = Ok(<<Entry2, Entry1>>)

\* C7: a load while no vault file exists returns the empty list and creates
\* no file.
C7_LoadAbsent ==
    [][(~vault.exists /\ \E p \in Passwords : Load(p)) =>
          (ret'.res = Ok(<<>>) /\ vault' = vault /\ tmp' = tmp)]_vars

C7_Witness ==
    /\ ret.op = "load"
    /\ ~vault.exists
    /\ ~tmp.exists
    /\ ret.res = Ok(<<>>)

\* C8: when initialize(M) has returned, the vault file exists and load(M)
\* gives the empty list, whatever the vault file held before.
C8_Initialize ==
    (ret.op = "initialize" /\ IsNone(ret.res)) =>
        (vault.exists /\ load(vault, ret.pw) = Ok(<<>>))

C8_Witness ==
    /\ ret.op = "initialize"
    /\ IsNone(ret.res)
    /\ ret.old.exists
    /\ Len(ret.old.data) > Len(vault.data)
    /\ load(vault, ret.pw) = Ok(<<>>)

\* C9 (as the specification states it): is_valid_master_password(p) returns
\* True exactly when load(p) succeeds, whether the vault file is absent,
\* decryptable or not decryptable.
C9_Original ==
    ret.op = "is_valid" => (ret.res = Ok(TRUE) <=> IsOk(load(vault, ret.pw)))

\* C9: while the vault file exists, is_valid_master_password(p) returns True
\* exactly when load(p) succeeds; while it is absent it returns False although
\* load(p) succeeds with the empty list.
C9_ValidIffLoadWhenPresent ==
    ret.op = "is_valid" =>
        IF vault.exists
        THEN ret.res = Ok(TRUE) <=> IsOk(load(vault, ret.pw))
        ELSE ret.res = Ok(FALSE) /\ load(vault, ret.pw) = Ok(<<>>)

C9_Witness ==
    /\ ret.op = "is_valid"
    /\ vault.exists
    /\ ret.res = Ok(FALSE)
    /\ IsNone(load(vault, ret.pw))

\* C10: is_valid_master_password returns False while no vault file exists,
\* True for the master password the vault file was last written with, and
\* False for any other password.
C10_ValidPassword ==
    ret.op = "is_valid" =>
        ret.res = IF ~vault.exists THEN Ok(FALSE) ELSE Ok(ret.pw = committed.pw)

C10_Witness ==
    /\ ret.op = "is_valid"
    /\ vault.exists
    /\ committed.entries # <<>>
    /\ ret.pw = committed.pw
    /\ ret.res = Ok(TRUE)

\* C11: a container of the version-1 layout (byte 1, salt, IV, AES-CBC
\* ciphertext with PKCS7 padding) built from the text P under the password M
\* is taken by decrypt_password_data through the version-1 branch and
\* decrypted with M to exactly P.
C11_LegacyV1RoundTrip ==
    (cx.stage = "decrypted" /\ cx.layout = "v1" /\ cx.dpw = cx.M) =>
        /\ B64DecodeBytes(cx.enc.v).v[1] = VERSION_CBC
        /\ Len(B64DecodeBytes(cx.enc.v).v) % 16 = 1
        /\ cx.out = Ok(cx.P)

C11_Witness ==
    /\ cx.stage = "decrypted"
    /\ cx.layout = "v1"
    /\ cx.dpw = cx.M
    /\ cx.P = SavePayload(<<Entry1>>)
    /\ Len(B64DecodeBytes(cx.enc.v).v) > 1 + SALT_LENGTH + IV_LENGTH + 16
    /\ cx.out = Ok(cx.P)

\* C12: whenever a container x (version 1, without version byte, or version
\* 2) decrypts to a text under a password, migrate_to_gcm(x, password)
\* returns a container whose first byte is 2 and that decrypts under the
\* password to the same text; migrating the result once more gives again
\* first byte 2 and the same text.
C12_MigrateKeepsPlaintext ==
    (ret.op = "migrate" /\ IsOk(decrypt_password_data(ret.x, ret.pw))) =>
        /\ IsOk(ret.res)
        /\ B64DecodeBytes(ret.res.v).v[1] = VERSION_GCM
        /\ decrypt_password_data(ret.res.v, ret.pw) = decrypt_password_data(ret.x, ret.pw)
        /\ IsOk(migrate_to_gcm(ret.res.v, ret.pw, Salt(1), Nonce(3)))
        /\ B64DecodeBytes(migrate_to_gcm(ret.res.v, ret.pw, Salt(1), Nonce(3)).v).v[1]
              = VERSION_GCM
        /\ decrypt_password_data(migrate_to_gcm(ret.res.v, ret.pw, Salt(1), Nonce(3)).v,
                                 ret.pw)
              = decrypt_password_data(ret.x, ret.pw)

C12_Witness ==
    /\ ret.op = "migrate"
    /\ cx.layout = "v1"
    /\ ret.pw = cx.M
    /\ cx.P = SavePayload(<<Entry1>>)
    /\ B64DecodeBytes(ret.x).v[1] = VERSION_CBC
    /\ IsOk(ret.res)
    /\ B64DecodeBytes(ret.res.v).v[1] = VERSION_GCM
    /\ decrypt_password_data(ret.res.v, cx.M) = Ok(cx.P)

\* C13: a container of the layout without version byte (salt, IV, CBC
\* ciphertext) built from the text P under the password M decrypts with M to
\* P, whatever the salt, a salt beginning with byte 1 or 2 included.
C13_Original ==
    (cx.stage = "decrypted" /\ cx.layout = "bare" /\ cx.dpw = cx.M) =>
        cx.out = Ok(cx.P)

\* the containers of C13 that do not decrypt: the first byte of the salt is
\* read as the version byte 1 or 2, and decrypt_password_data returns None
C13_Witness ==
    /\ cx.stage = "decrypted"
    /\ cx.layout = "bare"
    /\ cx.dpw = cx.M
    /\ cx.draw.salt[1] \in {VERSION_CBC, VERSION_GCM}
    /\ B64DecodeBytes(cx.enc.v).v[1] = cx.draw.salt[1]
    /\ IsNone(cx.out)

\* C14: every container the program writes has first byte 2 and the AES-GCM
\* layout (salt, 12-byte nonce, 16-byte tag, a ciphertext as long as the
\* text) and decrypts to the text written: the vault file that save or
\* initialize put in place, also over a legacy vault that was loaded before,
\* the container of a backup, of an encrypted export and of migrate_to_gcm.
C14_WritesVersion2 ==
    /\ committed.valid =>
          /\ B64DecodeBytes(vault.data).v[1] = VERSION_GCM
          /\ Len(B64DecodeBytes(vault.data).v)
                = 1 + SALT_LENGTH + GCM_NONCE_LENGTH + GCM_TAG_LENGTH
                  + Len(Utf8Encode(SavePayload(committed.entries)).v)
          /\ decrypt_password_data(vault.data, committed.pw)
                = Ok(SavePayload(committed.entries))
    /\ (ret.op \in {"backup", "export"}) =>
          /\ IsOk(ret.res)
          /\ B64DecodeBytes(ret.res.v).v[1] = VERSION_GCM
          /\ Len(B64DecodeBytes(ret.res.v).v)
                = 1 + SALT_LENGTH + GCM_NONCE_LENGTH + GCM_TAG_LENGTH
                  + Len(Utf8Encode(ret.payload).v)
          /\ decrypt_password_data(ret.res.v, ret.pw) = Ok(ret.payload)
    /\ (ret.op = "migrate" /\ ~IsNone(ret.res)) =>
          /\ IsOk(ret.res)
          /\ B64DecodeBytes(ret.res.v).v[1] = VERSION_GCM
          /\ Len(B64DecodeBytes(ret.res.v).v)
                = 1 + SALT_LENGTH + GCM_NONCE_LENGTH + GCM_TAG_LENGTH
                  + Len(Utf8Encode(decrypt_password_data(ret.x, ret.pw).v).v)

\* the first save after a load of a version-1 vault left a version-2 file
C14_Witness ==
    /\ cx.layout = "v1"
    /\ ret.op = "save"
    /\ IsNone(ret.res)
    /\ B64DecodeBytes(ret.old.data).v[1] = VERSION_CBC
    /\ committed.valid
    /\ committed.entries # <<>>
    /\ B64DecodeBytes(vault.data).v[1] = VERSION_GCM

\* C15: the salt and the nonce in the container that encrypt_password_data
\* returns are the draws of that call, not those of an earlier call; two
\* encryptions of the same text under the same password give different
\* containers whenever their draws differ, and both decrypt to the text.
C15_FreshSaltAndNonce ==
    cx.stage = "twice" =>
        /\ IsOk(cx.enc) /\ IsOk(cx.enc2)
        /\ Slice(B64DecodeBytes(cx.enc.v).v, 1, 1 + SALT_LENGTH) = cx.draw.salt
        /\ Slice(B64DecodeBytes(cx.enc.v).v, 1 + SALT_LENGTH,
                 1 + SALT_LENGTH + GCM_NONCE_LENGTH) = cx.draw.nonce
        /\ Slice(B64DecodeBytes(cx.enc2.v).v, 1, 1 + SALT_LENGTH) = cx.draw2.salt
        /\ Slice(B64DecodeBytes(cx.enc2.v).v, 1 + SALT_LENGTH,
                 1 + SALT_LENGTH + GCM_NONCE_LENGTH) = cx.draw2.nonce
        /\ (cx.draw.salt # cx.draw2.salt \/ cx.draw.nonce # cx.draw2.nonce)
              => cx.enc.v # cx.enc2.v
        /\ decrypt_password_data(cx.enc.v, cx.M) = Ok(cx.P)
        /\ decrypt_password_data(cx.enc2.v, cx.M) = Ok(cx.P)

C15_Witness ==
    /\ cx.stage = "twice"
    /\ cx.P = SavePayload(<<Entry1>>)
    /\ cx.draw.salt = cx.draw2.salt
    /\ cx.draw.nonce # cx.draw2.nonce
    /\ cx.enc.v # cx.enc2.v
    /\ decrypt_password_data(cx.enc.v, cx.M) = Ok(cx.P)
    /\ decrypt_password_data(cx.enc2.v, cx.M) = Ok(cx.P)

\* C16: a container of a legacy layout (version 1 or without version byte)
\* decrypted with a password other than the one it was encrypted with gives
\* None from decrypt_password_data, whether the wrong key leads to a padding
\* error or to other bytes, and None from load of a vault file holding it.
C16_Original ==
    (cx.stage = "decrypted" /\ cx.layout \in {"v1", "bare"} /\ cx.dpw # cx.M) =>
        /\ IsNone(cx.out)
        /\ IsNone(load(File(cx.enc.v, SECURE_FILE_MODE), cx.dpw))

\* the wrong key left the padding valid: decrypt_password_data returned a
\* text that is not the plaintext, and load of the file raised
C16_Witness ==
    /\ cx.stage = "decrypted"
    /\ cx.layout = "v1"
    /\ cx.dpw # cx.M
    /\ IsOk(cx.out)
    /\ cx.out.v # cx.P
    /\ IsRaised(load(File(cx.enc.v, SECURE_FILE_MODE), cx.dpw))

\* C17 as stated: a container that cannot be decoded (not base64, or too
\* short for the fields of its version) is reported differently from an
\* authentication failure, which is the result None.
C17_Original ==
    (cx.stage = "decrypted" /\ Undecodable(cx.enc.v)) => ~IsNone(cx.out)

\* C17: a container that cannot be decoded makes decrypt_password_data, and
\* load of a vault file holding it, return None, the result a wrong password
\* gives.
C17_UndecodableIsNone ==
    (cx.stage = "decrypted" /\ Undecodable(cx.enc.v)) =>
        /\ IsNone(cx.out)
        /\ IsNone(load(File(cx.enc.v, SECURE_FILE_MODE), cx.dpw))

C17_Witness ==
    /\ cx.stage = "decrypted"
    /\ cx.layout = "raw"
    /\ IsOk(B64Decode(cx.enc.v))
    /\ Len(B64Decode(cx.enc.v).v) = 1 + SALT_LENGTH + GCM_NONCE_LENGTH
    /\ B64Decode(cx.enc.v).v[1] = VERSION_GCM
    /\ Undecodable(cx.enc.v)
    /\ IsNone(cx.out)

\* C18: decrypt_password_data returns a text or None and raises nothing, for
\* every text (empty, not base64, truncated, with an unknown first byte,
\* arbitrary bytes, a legacy or current container) and every password.
C18_Total ==
    cx.stage = "decrypted" =>
        \/ IsNone(cx.out)
        \/ IsOk(cx.out) /\ IsOk(Utf8Encode(cx.out.v))

\* the body raised and the handler turned it into None
C18_Witness ==
    /\ cx.stage = "decrypted"
    /\ cx.layout = "raw"
    /\ IsRaised(B64Decode(cx.enc.v))
    /\ IsRaised(cx.body)
    /\ IsNone(cx.out)

\* C19: when the vault file decrypts under the given password to a text that
\* is not a vault payload (not JSON, a JSON value that is not an object, an
\* entry without name, username or password), load returns None, as for a
\* wrong password, and does not raise.
C19_Original ==
    (/\ ret.op = "load"
     /\ cx.stage = "file" /\ cx.layout = "v2" /\ ~committed.valid
     /\ ret.pw = cx.M
     /\ decrypt_password_data(vault.data, ret.pw) = Ok(cx.P)) =>
        IsNone(ret.res)

\* load of a file whose plaintext is a JSON list raised
C19_Witness ==
    /\ ret.op = "load"
    /\ cx.stage = "file" /\ cx.layout = "v2" /\ ~committed.valid
    /\ ret.pw = cx.M
    /\ cx.P = <<91, 93>>
    /\ decrypt_password_data(vault.data, ret.pw) = Ok(cx.P)
    /\ IsRaised(ret.res)

\* C20: migrate_to_gcm of a legacy container with a password other than the
\* one it was encrypted with returns None; it returns no version-2
\* container.
C20_Original ==
    (/\ ret.op = "migrate"
     /\ cx.stage = "built" /\ cx.layout \in {"v1", "bare"}
     /\ ret.pw # cx.M) =>
        IsNone(ret.res)

\* the migration with a wrong password returned a version-2 container that
\* holds, under the wrong password, a text that is not the plaintext
C20_Witness ==
    /\ ret.op = "migrate"
    /\ cx.stage = "built" /\ cx.layout = "v1"
    /\ ret.pw # cx.M
    /\ IsOk(ret.res)
    /\ B64DecodeBytes(ret.res.v).v[1] = VERSION_GCM
    /\ IsOk(decrypt_password_data(ret.res.v, ret.pw))
    /\ decrypt_password_data(ret.res.v, ret.pw) # Ok(cx.P)
    /\ IsNone(decrypt_password_data(ret.res.v, cx.M))

(***************************************************************************)
(* SpecRead: the calls of storage.py that only read (load,                 *)
(* is_valid_master_password, get_security_warnings), in any order and any  *)
(* number of times, on a vault file in a legacy or the current layout, or  *)
(* on none; a temporary file of an interrupted save may lie beside it.  cx *)
(* keeps the two files of the initial state.                               *)
(***************************************************************************)
\* permission bits of the files found on disk: 0600, 0644
ReadModes == {384, 420}

\* stat.S_IRWXG | stat.S_IRWXO
GROUP_OTHER_BITS == 63

\* storage.py 78-99: the warning, or None; statOk is whether os.stat succeeds
_check_file_permissions(f, statOk) ==
    IF ~file_exists(f) THEN None
    ELSE IF statOk /\ BitAnd(f.mode, GROUP_OTHER_BITS) # 0 THEN Ok("insecure permissions")
    ELSE None

\* storage.py 101-111
_check_platform_security(system) ==
    IF system = "Windows" THEN Ok("ACLs") ELSE None

\* list.append(warning) under `if warning:`
AppendIf(warnings, w) == IF IsOk(w) THEN Append(warnings, w.v) ELSE warnings

\* storage.py 222-241
get_security_warnings(statOk, system) ==
    /\ pc = "idle"
    /\ ret' = [op |-> "warnings",
               res |-> AppendIf(AppendIf(<<>>, _check_file_permissions(vault, statOk)),
                                _check_platform_security(system))]
    /\ UNCHANGED <<vault, tmp, dirMode, pc, sv, committed, tampered, crashed, cx>>

ReadInit ==
    /\ \E f \in VaultPool \cup {[layout |-> "none"]}, m \in ReadModes :
          /\ vault = IF f.layout = "none" THEN NoFile ELSE File(f.enc.v, m)
          /\ \E t \in {NoFile, File(<<65, 66>>, m)} :
                /\ tmp = t
                /\ cx = [stage |-> "read", layout |-> f.layout, vault |-> vault, tmp |-> t]
    /\ dirMode = SECURE_DIR_MODE
    /\ pc = "idle"
    /\ sv = <<>>
    /\ ret = [op |-> "none"]
    /\ committed = [valid |-> FALSE]
    /\ tampered = FALSE
    /\ crashed = FALSE

ReadNext ==
    \/ \E p \in Passwords : Load(p)
    \/ \E p \in Passwords : IsValid(p)
    \/ \E statOk \in BOOLEAN, system \in {"Linux", "Windows"} :
          get_security_warnings(statOk, system)

SpecRead == ReadInit /\ [][ReadNext]_vars

\* C21: load, is_valid_master_password and get_security_warnings never
\* create, modify, rename or delete the vault file or the temporary file:
\* after any number of them both files are what they were, a vault file in a
\* legacy layout included.
C21_ReadsLeaveFiles ==
    cx.stage = "read" => (vault = cx.vault /\ tmp = cx.tmp)

\* a legacy vault was loaded with its password beside a stale temporary file
C21_Witness ==
    /\ cx.stage = "read" /\ cx.layout \in {"v1", "bare"}
    /\ cx.tmp.exists
    /\ ret.op = "load" /\ IsOk(ret.res) /\ ret.res.v = <<Entry1>>
    /\ vault = cx.vault

(***************************************************************************)
(* SpecPerm: save and initialize under the umasks and directories a POSIX  *)
(* host can give the process.  cx keeps the mode open() gives a new file   *)
(* (0o666 less the umask) and the directory the constructor found.         *)
(***************************************************************************)
\* 0o666 less the umask, for the umasks 0, 0o022, 0o077 and 0o277
PermModes == {438, 420, 384, 256}

\* the directory before the store is constructed: missing, 0700 or 0755
PermDirs == {[exists |-> FALSE, mode |-> 0], [exists |-> TRUE, mode |-> 448],
             [exists |-> TRUE, mode |-> 493]}

\* storage.py 38-43: the directory is created (os.makedirs, here under the
\* umask 0o022) and secured only when it is missing
_ensure_storage_dir_exists(d) ==
    IF ~d.exists THEN _set_secure_dir_permissions(493) ELSE d.mode

\* the calls of this specification: one password, at most one entry
PermCalls == {c \in SaveCalls : c.pw = <<112>> /\ Len(c.entries) <= 1}

PermInit ==
    /\ \E old \in {NoFile} \cup {File(c.data.v, 420) : c \in PermCalls} : vault = old
    /\ \E d \in PermDirs, m \in PermModes :
          /\ dirMode = _ensure_storage_dir_exists(d)
          /\ cx = [stage |-> "perm", created |-> m, dir |-> d]
    /\ tmp = NoFile
    /\ pc = "idle"
    /\ sv = <<>>
    /\ ret = [op |-> "none"]
    /\ committed = [valid |-> FALSE]
    /\ tampered = FALSE
    /\ crashed = FALSE

PermNext ==
    \/ \E call \in PermCalls : ret.op = "none" /\ Save(call)
    \/ \E call \in PermCalls : ret.op = "none" /\ Initialize(call)
    \/ SaveOpenModes({cx.created})
    \/ SaveWrite
    \/ SaveChmodTmp
    \/ SaveReplace
    \/ SaveChmodFinal
    \/ SaveFinally
    \/ InitializeDir

SpecPerm == PermInit /\ [][PermNext]_vars

\* the last call was a save or an initialize and it returned
WriteReturned == ret.op \in {"save", "initialize"} /\ IsNone(ret.res)

C23_Original ==
    (cx.stage = "perm" /\ WriteReturned) => dirMode = SECURE_DIR_MODE

\* a save returned in a directory that existed with mode 0755: the directory
\* still has mode 0755
C23_Witness ==
    /\ cx.stage = "perm" /\ cx.dir.exists /\ cx.dir.mode = 493
    /\ ret.op = "save" /\ IsNone(ret.res) /\ ~ret.chmodFailed
    /\ vault.exists /\ vault.mode = BitAnd(cx.created, SECURE_FILE_MODE)
    /\ dirMode = 493

\* C24 as stated: whenever save has finished, by returning or by raising, no
\* file remains at the temporary path.
C24_Original ==
    (cx.stage = "perm" /\ pc = "idle" /\ ret.op \in {"save", "initialize"}) =>
        ~tmp.exists

\* C24: when save returns, no file remains at the temporary path (the rename
\* took it away); when save raises, a file remains there only if the write
\* or the rename failed and os.remove failed after it, and it holds a part of
\* the text of that call.
C24_NoTempAfterReturn ==
    (cx.stage = "perm" /\ pc = "idle" /\ ret.op \in {"save", "initialize"}) =>
        /\ IsNone(ret.res) => ~tmp.exists
        /\ tmp.exists =>
              /\ IsRaised(ret.res) /\ ret.failed \in {"write", "replace"}
              /\ \E c \in PermCalls :
                    /\ c.entries = ret.entries
                    /\ tmp.data = SubSeq(c.data.v, 1, Len(tmp.data))

\* a save whose rename failed raised and removed its temporary file; the
\* vault file it found is still there
C24_Witness ==
    /\ cx.stage = "perm" /\ pc = "idle"
    /\ ret.op = "save" /\ IsRaised(ret.res) /\ ret.failed = "replace"
    /\ ~tmp.exists
    /\ vault.exists /\ vault = ret.old

(***************************************************************************)
(* SpecModels: an entry is turned into its dictionary (to_dict); a key may *)
(* be taken out of the dictionary, as in a file another program wrote; the *)
(* dictionary is turned into an entry again (from_dict).                   *)
(***************************************************************************)
\* the entries of this specification: every field empty or not, notes also
\* None, the id and the stamps also equal to what from_dict would make up
ModelEntries ==
    [id : {<<49>>, FreshId}, name : {<<>>, <<103>>}, username : {<<>>, <<97>>},
     password : {<<34, 92>>}, notes : {NoneStr, <<>>, <<122>>},
     created_at : {<<56>>, NowStamp}, updated_at : {<<57>>, NowStamp}]

ModelsInit ==
    /\ StoreInit
    /\ \E e \in ModelEntries : cx = [stage |-> "entry", e |-> e]

\* models.py 23-38
ToDict ==
    /\ cx.stage = "entry"
    /\ cx' = [stage |-> "dict", e |-> cx.e, d |-> to_dict(cx.e), dropped |-> {}]
    /\ UNCHANGED storeVars

\* the dictionary without the key k
DropKey(k) ==
    /\ cx.stage = "dict" /\ cx.dropped = {}
    /\ cx' = [cx EXCEPT !.d = [j \in DOMAIN cx.d \ {k} |-> cx.d[j]], !.dropped = {k}]
    /\ UNCHANGED storeVars

\* models.py 40-59
FromDict ==
    /\ cx.stage = "dict"
    /\ cx' = [stage |-> "entry2", e |-> cx.e, d |-> cx.d, dropped |-> cx.dropped,
              r |-> from_dict(cx.d)]
    /\ UNCHANGED storeVars

ModelsNext ==
    \/ ToDict
    \/ \E k \in Keys : DropKey(k)
    \/ FromDict

SpecModels == ModelsInit /\ [][ModelsNext]_vars

\* C25: PasswordEntry.from_dict(e.to_dict()) equals e in all seven fields
\* (id, name, username, password, notes, created_at, updated_at), also when
\* notes is None.
C25_DictRoundTrip ==
    (cx.stage = "entry2" /\ cx.dropped = {}) =>
        /\ IsOk(cx.r)
        /\ \A k \in Keys : to_dict(cx.r.v)[k] = to_dict(cx.e)[k]
        /\ cx.r.v = cx.e

\* an entry whose notes are None and whose id and stamps are not the ones
\* from_dict would make up came back as it was
C25_Witness ==
    /\ cx.stage = "entry2" /\ cx.dropped = {}
    /\ cx.e.notes = NoneStr /\ cx.e.id # FreshId /\ cx.e.created_at # NowStamp
    /\ cx.r = Ok(cx.e)

(***************************************************************************)
(* SpecRace: two processes run `add` on the same vault at the same time,   *)
(* each a load followed by the steps of save; the steps interleave in any  *)
(* order.  The operating system does not fail here: what goes wrong comes  *)
(* from the other process.  cx holds the file system below the two paths   *)
(* (ino: the files by inode; vaultAt, tmpAt: the inode each path names, 0  *)
(* for none) and the frame of each process; fd is the inode a process      *)
(* holds open.  vault and tmp are the files at the two paths.              *)
(***************************************************************************)
RacePw == <<112>>

\* the entry process p adds; the two containers differ in length
RaceEntry(p) == IF p = 1 THEN Entry1 ELSE Entry2

\* the draws of os.urandom in process p
RaceDraw(p) == IF p = 1 THEN <<Salt(1), Nonce(3)>> ELSE <<Salt(201), Nonce(77)>>

\* the steps of save in which the temporary path is in use
SaveSteps == {"write", "chmod_tmp", "replace", "chmod_final", "finally"}

\* the file a path names
FileOf(c, at) == IF at = 0 THEN NoFile ELSE c.ino[at]

\* the next state: the file system and the frames c
RaceSet(c) ==
    /\ cx' = c
    /\ vault' = FileOf(c, c.vaultAt)
    /\ tmp' = FileOf(c, c.tmpAt)
    /\ UNCHANGED <<dirMode, pc, sv, ret, committed, tampered, crashed>>

RaceInit ==
    /\ cx = [stage |-> "race",
             ino |-> [i \in 1..3 |->
                        IF i = 1
                        THEN File(encrypt_password_data(SavePayload(<<>>), RacePw,
                                                        Salt(2), Nonce(3)).v,
                                  SECURE_FILE_MODE)
                        ELSE NoFile],
             vaultAt |-> 1, tmpAt |-> 0, overlap |-> FALSE,
             proc |-> [p \in {1, 2} |->
                         [pc |-> "start", fd |-> 0, entries |-> <<>>, data |-> <<>>,
                          early |-> FALSE, exc |-> FALSE, res |-> "none"]]]
    /\ vault = cx.ino[1]
    /\ tmp = NoFile
    /\ dirMode = SECURE_DIR_MODE
    /\ pc = "idle"
    /\ sv = <<>>
    /\ ret = [op |-> "none"]
    /\ committed = [valid |-> FALSE]
    /\ tampered = FALSE
    /\ crashed = FALSE

\* an add that appends nothing
AddEntry_Nothing(entries, e) == entries

\* commands.py 163-170: entries.append(new_entry)
AddEntry(entries, e) == Append(entries, e)

\* commands.py 117-120: the frame of process p after storage.load returned r;
\* None ends the command ("Invalid master password"), an exception too
AfterLoad(p, r) ==
    IF IsOk(r)
    THEN [cx.proc[p] EXCEPT !.pc = "loaded", !.entries = r.v,
                            !.early = cx.proc[3 - p].pc \in {"start", "loaded"}]
    ELSE [cx.proc[p] EXCEPT !.pc = "done",
                            !.res = IF IsNone(r) THEN "refused" ELSE "raised"]

RaceLoad(p) ==
    /\ cx.stage = "race" /\ cx.proc[p].pc = "start"
    /\ RaceSet([cx EXCEPT !.proc[p] = AfterLoad(p, load(vault, RacePw))])

\* commands.py 170-174 and storage.py 130-142: the entry is appended, the
\* list encrypted, and open(temp_file, 'w') creates the file or truncates
\* the file that is at the path
RaceOpen(p) ==
    /\ cx.stage = "race" /\ cx.proc[p].pc = "loaded"
    /\ RaceSet([cx EXCEPT
          !.proc[p] = [@ EXCEPT
              !.pc = "write",
              !.entries = AddEntry(@, RaceEntry(p)),
              !.data = encrypt_password_data(
                           SavePayload(AddEntry(cx.proc[p].entries, RaceEntry(p))),
                           RacePw, RaceDraw(p)[1], RaceDraw(p)[2]).v,
              !.fd = IF cx.tmpAt = 0 THEN p + 1 ELSE cx.tmpAt],
          !.ino = IF cx.tmpAt = 0
                  THEN [@ EXCEPT ![p + 1] = File(<<>>, 420)]
                  ELSE [@ EXCEPT ![cx.tmpAt].data = <<>>],
          !.tmpAt = IF cx.tmpAt = 0 THEN p + 1 ELSE cx.tmpAt,
          !.overlap = @ \/ cx.proc[3 - p].pc \in SaveSteps])

\* what a file holds after data was written at its start
WriteOver(old, data) == data \o SubSeq(old, Len(data) + 1, Len(old))

\* storage.py 143: the text goes, from offset 0, to the file the process has
\* open, whatever path names it by now
RaceWrite(p) ==
    /\ cx.stage = "race" /\ cx.proc[p].pc = "write"
    /\ RaceSet([cx EXCEPT
          !.proc[p].pc = "chmod_tmp",
          !.ino[cx.proc[p].fd].data = WriteOver(@, cx.proc[p].data)])

\* storage.py 146: os.stat of a missing path raises OSError, which is
\* swallowed
RaceChmodTmp(p) ==
    /\ cx.stage = "race" /\ cx.proc[p].pc = "chmod_tmp"
    /\ RaceSet([cx EXCEPT
          !.proc[p].pc = "replace",
          !.ino = IF cx.tmpAt = 0 THEN @
                  ELSE [@ EXCEPT ![cx.tmpAt] = _set_secure_file_permissions(@)]])

\* storage.py 149: os.replace raises FileNotFoundError when nothing is at
\* the temporary path
RaceReplace(p) ==
    /\ cx.stage = "race" /\ cx.proc[p].pc = "replace"
    /\ RaceSet(IF cx.tmpAt = 0
               THEN [cx EXCEPT !.proc[p].pc = "finally", !.proc[p].exc = TRUE]
               ELSE [cx EXCEPT !.proc[p].pc = "chmod_final",
                               !.vaultAt = cx.tmpAt, !.tmpAt = 0])

\* storage.py 152
RaceChmodFinal(p) ==
    /\ cx.stage = "race" /\ cx.proc[p].pc = "chmod_final"
    /\ RaceSet([cx EXCEPT
          !.proc[p].pc = "finally",
          !.ino[cx.vaultAt] = _set_secure_file_permissions(@)])

\* storage.py 154-160 and commands.py 173-179: whatever is at the temporary
\* path is removed; the command reports success, or the exception of save
RaceFinally(p) ==
    /\ cx.stage = "race" /\ cx.proc[p].pc = "finally"
    /\ RaceSet([cx EXCEPT
          !.proc[p].pc = "done",
          !.proc[p].res = IF cx.proc[p].exc THEN "failed" ELSE "ok",
          !.tmpAt = 0])

RaceNext ==
    \E p \in {1, 2} :
        \/ RaceLoad(p)
        \/ RaceOpen(p)
        \/ RaceWrite(p)
        \/ RaceChmodTmp(p)
        \/ RaceReplace(p)
        \/ RaceChmodFinal(p)
        \/ RaceFinally(p)

SpecRace == RaceInit /\ [][RaceNext]_vars

\* both commands are over
RaceDone == cx.proc[1].pc = "done" /\ cx.proc[2].pc = "done"

C28_Original ==
    cx.stage = "race" =>
        /\ vault.exists =>
              \/ vault.data = cx.ino[1].data /\ cx.vaultAt = 1
              \/ \E p \in {1, 2} :
                    cx.proc[p].pc \in SaveSteps \cup {"done"} /\ vault.data = cx.proc[p].data
        /\ \A p \in {1, 2} : ~cx.proc[p].exc

\* both commands are over; the save of process 2 raised at os.replace, and
\* the vault file holds the container of process 1 followed by the end of
\* the longer container of process 2: no password decrypts it
C28_Witness ==
    /\ cx.stage = "race" /\ RaceDone
    /\ cx.proc[1].res = "ok" /\ cx.proc[2].res = "failed"
    /\ Len(cx.proc[1].data) < Len(cx.proc[2].data)
    /\ vault.data = WriteOver(cx.proc[2].data, cx.proc[1].data)
    /\ IsNone(load(vault, RacePw))

(***************************************************************************)
(* The commands of cli/commands.py and of the interactive shell.  A        *)
(* command is one action: what it reads at its prompts (the master         *)
(* password, the answer to a confirmation) is an input, and its save       *)
(* either replaces the vault file or raises and leaves it as it was.       *)
(***************************************************************************)
\* str.lower() on the names of the model (ASCII letters)
Lower(s) == [i \in 1..Len(s) |-> IF s[i] \in 65..90 THEN s[i] + 32 ELSE s[i]]

\* the names given to add and delete: "a", "A", "b"
CliNames == {<<97>>, <<65>>, <<98>>}

\* commands.py 163-168: PasswordEntry(name=..., username=..., password=...,
\* notes=...) with the id and the stamps the constructor makes up
NewEntry(name) ==
    [id |-> FreshId, name |-> name, username |-> <<117>>, password |-> <<120>>,
     notes |-> NoneStr, created_at |-> NowStamp, updated_at |-> NowStamp]

\* any(entry.name.lower() == name.lower() for entry in entries)
NameTaken(entries, name) ==
    \E i \in 1..Len(entries) : Lower(entries[i].name) = Lower(name)

\* [entry for entry in entries if entry.name.lower() != name.lower()]
WithoutName(entries, name) ==
    SelectSeq(entries, LAMBDA e : Lower(e.name) # Lower(name))

\* commands.py 459-461, 540-542: the existing entries whose name no incoming
\* entry has, followed by the incoming ones
Merged(existing, incoming) ==
    SelectSeq(existing, LAMBDA e : ~NameTaken(incoming, e.name)) \o incoming

\* storage.py 122-160 as one step: the vault file after save(entries,
\* master_password); ok is whether the write and the rename went through
save(f, entries, master_password, d, ok) ==
    IF ok
    THEN File(encrypt_password_data(SavePayload(entries), master_password, d[1], d[2]).v,
              SECURE_FILE_MODE)
    ELSE f

\* backup.py 71-81: the text of a backup
BackupText(entries) == <<123, 86, 49, 67, 34, 56, 34>> \o Tail(SavePayload(entries))

\* backup.py 127-133: json.loads of the text and its "entries"
BackupEntries(json_data) ==
    IF IsNone(json_data) \/ Len(json_data.v) < 8 THEN Raised
    ELSE EntriesOf(JsonLoadsEntries(<<123>> \o SubSeq(json_data.v, 8, Len(json_data.v))))

\* backup.py 104-135: the entries, or Raised (BackupError, KeyError, ...)
restore_backup(b, master_password) ==
    IF ~b.exists THEN Raised
    ELSE BackupEntries(decrypt_password_data(b.data, master_password))

\* import_export.py 51-64: entries that from_dict rejects are skipped
ValidEntries(ds) ==
    IF IsRaised(ds) THEN Raised
    ELSE Ok([i \in 1..Len(SelectSeq(ds.v, LAMBDA x : IsOk(from_dict(x)))) |->
                from_dict(SelectSeq(ds.v, LAMBDA x : IsOk(from_dict(x)))[i]).v])

\* import_export.py 31-75
from_json(text) == ValidEntries(JsonLoadsEntries(text))

\* how a command that loaded r goes on
LoadStatus(r) ==
    IF IsNone(r) THEN "refused" ELSE IF IsRaised(r) THEN "raised" ELSE "loaded"

\* the commands of one behaviour
MaxCommands == 2

\* the end of a command of the CLI: the vault file is v.  A command that
\* did not write leaves everything as it was, so the model goes on only
\* after one that wrote
CliEnd(op, pw, res, v) ==
    /\ pc = "idle"
    /\ IF ret.op = "none" THEN TRUE ELSE ret.res = "ok" /\ ret.n < MaxCommands
    /\ vault' = v
    /\ ret' = [op |-> op, pw |-> pw, res |-> res, changed |-> v # vault, n |-> ret.n + 1]
    /\ UNCHANGED <<tmp, dirMode, pc, sv, committed, tampered, crashed, cx>>

\* commands.py 122-179 after load returned r
AddLoaded(name, pw, confirm, d, ok, r) ==
    IF LoadStatus(r) # "loaded" THEN CliEnd("add", pw, LoadStatus(r), vault)
    ELSE IF NameTaken(r.v, name) /\ ~confirm THEN CliEnd("add", pw, "cancelled", vault)
    ELSE CliEnd("add", pw, IF ok THEN "ok" ELSE "failed",
                save(vault, Append(WithoutName(r.v, name), NewEntry(name)), pw, d, ok))

\* commands.py 91-179
cli_add(name, pw, confirm, d, ok) ==
    AddLoaded(name, pw, confirm, d, ok, load(vault, pw))

\* commands.py 310-329 after load returned r
DeleteLoaded(name, pw, confirm, d, ok, r) ==
    IF LoadStatus(r) # "loaded" THEN CliEnd("delete", pw, LoadStatus(r), vault)
    ELSE IF ~NameTaken(r.v, name) THEN CliEnd("delete", pw, "not found", vault)
    ELSE IF ~confirm THEN CliEnd("delete", pw, "cancelled", vault)
    ELSE CliEnd("delete", pw, IF ok THEN "ok" ELSE "failed",
                save(vault, WithoutName(r.v, name), pw, d, ok))

\* commands.py 296-329
cli_delete(name, pw, confirm, d, ok) ==
    DeleteLoaded(name, pw, confirm, d, ok, load(vault, pw))

\* commands.py 450-480, 535-562: the incoming entries replace the vault's,
\* or (--merge) are merged with the entries load returned (r)
WriteIncoming(op, incoming, pw, merge, confirm, d, ok, r) ==
    IF IsRaised(incoming) THEN CliEnd(op, pw, "failed", vault)
    ELSE IF merge /\ LoadStatus(r) # "loaded" THEN CliEnd(op, pw, LoadStatus(r), vault)
    ELSE IF ~confirm THEN CliEnd(op, pw, "cancelled", vault)
    ELSE CliEnd(op, pw, IF ok THEN "ok" ELSE "failed",
                save(vault, IF merge THEN Merged(r.v, incoming.v) ELSE incoming.v,
                     pw, d, ok))

\* commands.py 432-480
cli_restore(b, pw, merge, confirm, d, ok) ==
    WriteIncoming(IF merge THEN "restore --merge" ELSE "restore",
                  restore_backup(b, pw), pw, merge, confirm, d, ok,
                  IF merge THEN load(vault, pw) ELSE None)

\* commands.py 509-562 with --format json
cli_import_data(text, pw, merge, confirm, d, ok) ==
    WriteIncoming(IF merge THEN "import-data --merge" ELSE "import-data",
                  from_json(text), pw, merge, confirm, d, ok,
                  IF merge THEN load(vault, pw) ELSE None)

(***************************************************************************)
(* SpecCli: commands of the CLI, one after the other, on a vault file that *)
(* exists under the password cx.pw0; a backup file and files to import lie *)
(* beside it.                                                              *)
(***************************************************************************)
\* the backup files: of one entry, under either password
CliBackups ==
    {File(encrypt_password_data(BackupText(<<NewEntry(<<98>>)>>), p, Salt(1), Nonce(3)).v,
          SECURE_FILE_MODE) : p \in Passwords}

\* the files to import: one entry, two entries, and a text that is not JSON
CliImports ==
    {SavePayload(<<NewEntry(<<65>>)>>), SavePayload(<<Entry1, Entry2>>), <<120>>}

CliInit ==
    /\ \E e \in {<<>>, <<NewEntry(<<97>>)>>}, b \in CliBackups :
          /\ vault = save(NoFile, e, <<112>>, <<Salt(2), Nonce(3)>>, TRUE)
          /\ cx = [stage |-> "cli", pw0 |-> <<112>>, backup |-> b]
    /\ tmp = NoFile
    /\ dirMode = SECURE_DIR_MODE
    /\ pc = "idle"
    /\ sv = <<>>
    /\ ret = [op |-> "none", n |-> 0]
    /\ committed = [valid |-> FALSE]
    /\ tampered = FALSE
    /\ crashed = FALSE

CliNext ==
    \E pw \in Passwords, confirm \in BOOLEAN, ok \in BOOLEAN, d \in SaveDraws :
        \/ \E name \in CliNames : cli_add(name, pw, confirm, d, ok)
        \/ \E name \in CliNames : cli_delete(name, pw, confirm, d, ok)
        \/ \E merge \in BOOLEAN : cli_restore(cx.backup, pw, merge, confirm, d, ok)
        \/ \E merge \in BOOLEAN, text \in CliImports :
              cli_import_data(text, pw, merge, confirm, d, ok)

SpecCli == CliInit /\ [][CliNext]_vars

\* C29: every command of the CLI other than init that overwrites the vault
\* file (add, delete, restore, import-data, with or without --merge) first
\* loads it with the password it saves under: after any sequence of them the
\* vault is still decryptable with the password it had, and a command given
\* another password leaves the file unchanged.
C29_Original ==
    (cx.stage = "cli" /\ ret.op # "none") =>
        /\ IsOk(load(vault, cx.pw0))
        /\ ret.pw # cx.pw0 => ~ret.changed

\* import-data without --merge, given another password than the vault's,
\* replaced the vault file: the old password no longer opens it, the other
\* one does
C29_Witness ==
    /\ cx.stage = "cli"
    /\ ret.op = "import-data" /\ ret.n = 1 /\ ret.res = "ok" /\ ret.changed
    /\ ret.pw # cx.pw0
    /\ IsNone(load(vault, cx.pw0))
    /\ load(vault, ret.pw) = Ok(<<NewEntry(<<65>>)>>)

(***************************************************************************)
(* SpecShell: sessions of the interactive shell, one after the other, on a *)
(* store that is not initialized or holds an empty vault under the         *)
(* password "p".  cx is the shell: on (a session is running), master_password and *)
(* entries (its attributes), how the session began, the vault file as the  *)
(* session found it, and whether the session wrote a backup; cx.backup is  *)
(* a backup file made earlier.                                             *)
(***************************************************************************)
ShellNames == {<<97>>, <<65>>}

\* a preloop that takes a vault it cannot decrypt for an empty one
SessionAfterLoad_Lenient(pw, r) ==
    [mp |-> Ok(pw), entries |-> IF IsNone(r) THEN Ok(<<>>) ELSE r,
     how |-> IF IsNone(r) THEN "wrong" ELSE "ok"]

\* interactive_shell.py 131-139: the attributes after load returned r
SessionAfterLoad(pw, r) ==
    IF IsNone(r) THEN [mp |-> None, entries |-> None, how |-> "wrong"]
    ELSE [mp |-> Ok(pw), entries |-> r, how |-> "ok"]

\* interactive_shell.py 125-139
preloop(f, pw) ==
    IF ~file_exists(f) THEN [mp |-> None, entries |-> None, how |-> "absent"]
    ELSE SessionAfterLoad(pw, load(f, pw))

\* interactive_shell.py 673-678
_check_authenticated(s) == ~(IsNone(s.mp) \/ IsNone(s.entries))

\* the end of a command of the shell: the shell is c, the vault file is v.
\* A command that changed nothing is not followed up
ShEnd(op, res, c, v) ==
    /\ pc = "idle"
    /\ IF ret.op = "none" THEN TRUE ELSE ret.res = "ok"
    /\ vault' = v
    /\ cx' = c
    /\ ret' = [op |-> op, res |-> res]
    /\ UNCHANGED <<tmp, dirMode, pc, sv, committed, tampered, crashed>>

\* the shell after the process ended
ShellOff(c) == [c EXCEPT !.on = FALSE, !.mp = None, !.entries = None, !.how = "none"]

\* run_interactive_shell: the constructor and preloop; an exception of load
\* ends the process
ShStart(pw) ==
    /\ cx.stage = "shell" /\ ~cx.on
    /\ IF IsRaised(load(vault, pw)) /\ file_exists(vault)
       THEN ShEnd("start", "died", cx, vault)
       ELSE ShEnd("start", "ok",
                  [on |-> TRUE, vault0 |-> vault, wroteBackup |-> FALSE]
                      @@ preloop(vault, pw) @@ cx,
                  vault)

\* interactive_shell.py 397-434: the list with the new entry; names are
\* compared as they are
ShAdded(entries, name) ==
    Append(SelectSeq(entries, LAMBDA e : e.name # name), NewEntry(name))

\* interactive_shell.py 346-439; an exception of save ends the process
do_add(name, confirm, d, ok) ==
    /\ cx.stage = "shell" /\ cx.on
    /\ IF ~_check_authenticated(cx) THEN ShEnd("add", "refused", cx, vault)
       ELSE IF (\E i \in 1..Len(cx.entries.v) : cx.entries.v[i].name = name) /\ ~confirm
       THEN ShEnd("add", "cancelled", cx, vault)
       ELSE IF ~ok THEN ShEnd("add", "died", ShellOff(cx), vault)
       ELSE ShEnd("add", "ok", [cx EXCEPT !.entries = Ok(ShAdded(@.v, name))],
                  save(vault, ShAdded(cx.entries.v, name), cx.mp.v, d, TRUE))

\* interactive_shell.py 441-476
do_delete(name, confirm, d, ok) ==
    /\ cx.stage = "shell" /\ cx.on
    /\ IF ~_check_authenticated(cx) THEN ShEnd("delete", "refused", cx, vault)
       ELSE IF ~NameTaken(cx.entries.v, name) THEN ShEnd("delete", "not found", cx, vault)
       ELSE IF ~confirm THEN ShEnd("delete", "cancelled", cx, vault)
       ELSE IF ~ok THEN ShEnd("delete", "died", ShellOff(cx), vault)
       ELSE ShEnd("delete", "ok", [cx EXCEPT !.entries = Ok(WithoutName(@.v, name))],
                  save(vault, WithoutName(cx.entries.v, name), cx.mp.v, d, TRUE))

\* interactive_shell.py 551-571: create_backup writes a new file
do_backup(ok) ==
    /\ cx.stage = "shell" /\ cx.on
    /\ IF ~_check_authenticated(cx) THEN ShEnd("backup", "refused", cx, vault)
       ELSE IF ~ok THEN ShEnd("backup", "failed", cx, vault)
       ELSE ShEnd("backup", "ok", [cx EXCEPT !.wroteBackup = TRUE], vault)

\* interactive_shell.py 598-612 after restore_backup returned restored: the
\* attribute is set before save is called
RestoreInto(restored, merge, d, ok) ==
    IF IsRaised(restored) THEN ShEnd("restore", "failed", cx, vault)
    ELSE ShEnd("restore", IF ok THEN "ok" ELSE "failed",
               [cx EXCEPT !.entries =
                    Ok(IF merge THEN Merged(@.v, restored.v) ELSE restored.v)],
               save(vault, IF merge THEN Merged(cx.entries.v, restored.v) ELSE restored.v,
                    cx.mp.v, d, ok))

\* interactive_shell.py 573-614
do_restore(merge, d, ok) ==
    /\ cx.stage = "shell" /\ cx.on
    /\ IF ~_check_authenticated(cx) THEN ShEnd("restore", "refused", cx, vault)
       ELSE RestoreInto(restore_backup(cx.backup, cx.mp.v), merge, d, ok)

\* interactive_shell.py 160-170, 232-235, 284-287: search, list and show
\* print entries of the session
do_show(cmd) ==
    /\ cx.stage = "shell" /\ cx.on
    /\ ShEnd(cmd, IF _check_authenticated(cx) THEN "shown" ELSE "refused", cx, vault)

\* interactive_shell.py 153-158
do_exit ==
    /\ cx.stage = "shell" /\ cx.on
    /\ ShEnd("exit", "ok", ShellOff(cx), vault)

ShellInit ==
    /\ \E v \in {NoFile, save(NoFile, <<>>, <<112>>, <<Salt(2), Nonce(3)>>, TRUE)} :
          /\ vault = v
          /\ cx = [stage |-> "shell", on |-> FALSE, mp |-> None, entries |-> None,
                   how |-> "none", vault0 |-> v, wroteBackup |-> FALSE,
                   backup |-> File(encrypt_password_data(BackupText(<<NewEntry(<<65>>)>>),
                                                         <<112>>, Salt(1), Nonce(3)).v,
                                   SECURE_FILE_MODE)]
    /\ tmp = NoFile
    /\ dirMode = SECURE_DIR_MODE
    /\ pc = "idle"
    /\ sv = <<>>
    /\ ret = [op |-> "none"]
    /\ committed = [valid |-> FALSE]
    /\ tampered = FALSE
    /\ crashed = FALSE

ShellNext ==
    \/ \E pw \in Passwords : ShStart(pw)
    \/ \E name \in ShellNames, confirm \in BOOLEAN, ok \in BOOLEAN, d \in SaveDraws :
          \/ do_add(name, confirm, d, ok)
          \/ do_delete(name, confirm, d, ok)
    \/ \E merge \in BOOLEAN, ok \in BOOLEAN, d \in SaveDraws : do_restore(merge, d, ok)
    \/ \E ok \in BOOLEAN : do_backup(ok)
    \/ \E cmd \in {"list", "show", "search"} : do_show(cmd)
    \/ do_exit

SpecShell == ShellInit /\ [][ShellNext]_vars

\* no two entries of the list have names equal without regard to case
NoCaseDup(r) ==
    IsOk(r) => \A i, j \in 1..Len(r.v) :
                  Lower(r.v[i].name) = Lower(r.v[j].name) => i = j

\* C26: after any sequence of add and delete commands of the CLI or of the
\* interactive shell, starting from an empty vault, no two entries of the
\* vault have names that are equal when compared case-insensitively.
C26_Original ==
    cx.stage = "shell" => \A pw \in Passwords : NoCaseDup(load(vault, pw))

\* in the shell, add "a" and then add "A" were both carried out without a
\* question: the vault holds the two entries
C26_Witness ==
    /\ cx.stage = "shell" /\ cx.on
    /\ ret.op = "add" /\ ret.res = "ok"
    /\ load(vault, <<112>>) = Ok(<<NewEntry(<<97>>), NewEntry(<<65>>)>>)

\* C30: in the interactive shell no command writes the vault or a backup
\* unless the load at the start of the shell succeeded: when the store was
\* not initialized or the master password entered was wrong, every add,
\* delete, backup, restore, list, show and search is refused, and the vault
\* file stays as the session found it.
C30_NoWriteUnlessLoaded ==
    (cx.stage = "shell" /\ cx.on /\ cx.how \in {"absent", "wrong"}) =>
        /\ vault = cx.vault0
        /\ ~cx.wroteBackup
        /\ ret.op \in {"start", "add", "delete", "backup", "restore",
                       "list", "show", "search"}
        /\ ret.op # "start" => ret.res = "refused"

\* a session that began with the wrong password refused a restore; the vault
\* file, which holds an entry, is what it was
C30_Witness ==
    /\ cx.stage = "shell" /\ cx.on /\ cx.how = "wrong"
    /\ ret.op = "restore" /\ ret.res = "refused"
    /\ vault = cx.vault0 /\ vault.exists
    /\ \E pw \in Passwords : IsOk(load(vault, pw)) /\ Len(load(vault, pw).v) = 1

====
